---- MODULE Spec2Model ----
(***************************************************************************)
(* The browser-driven OAuth sign-in of newapi-ai-check-in:                 *)
(* GitHubSignIn.signin (src/sign_in_with_github.py) and                     *)
(* LinuxDoSignIn.signin (src/sign_in_with_linuxdo.py), one invocation.      *)
(*                                                                         *)
(* Every awaited browser operation is a point where the browser engine may *)
(* raise; the page, its URL, its local storage and the cookies are the      *)
(* environment and are drawn from small sets.  `log` records the            *)
(* operations the driver performed, in order.                              *)
(*                                                                         *)
(* The caller of the flows is the loop over the accounts in main()         *)
(* (src/main.py, src/checkin_996/main.py); it has its own specification,   *)
(* MainSpec, in which a check-in is one awaited call.                       *)
(*                                                                         *)
(* Three library functions have specifications of their own, each over    *)
(* inputs drawn from bounded sets: AppConfig.load_from_env with            *)
(* ProviderConfig (src/utils/config.py) in ConfigSpec, load_accounts       *)
(* (src/main.py) in AccountsSpec, and CheckIn.check_in_with_token          *)
(* (src/checkin_996/checkin.py) in TokenSpec.                              *)
(***************************************************************************)
EXTENDS Integers, Sequences, FiniteSets, TLC

VARIABLES
    provider,       \* "github" | "linuxdo": which class's signin runs
    auth_cookies,   \* TRUE iff the auth_cookies argument is a non-empty list
    cache_exists,   \* os.path.exists(cache_file_path) now
    saves,          \* number of times the snapshot file was written
    pc,             \* position in signin
    storage_state,  \* the local of that name: TRUE iff it is the cache path
    is_logged_in,   \* the local of that name
    captured,       \* what context.cookies() returned ({} before it is called)
    probe,          \* what the cache check observed
    browser,        \* "none" | "open" | "closed"
    context,        \* "none" | "open" | "closed"
    page,           \* "none" | "open" | "closed"
    query,          \* the query string of page.url as read for parse_qs
    api_user,       \* the local of that name, a JSON value
    ret,            \* what the try block is completing with
    outcome,        \* "running" | "returned" | "raised": what the caller got
    log,            \* the operations performed, in order
    diag_ok,        \* FALSE once a screenshot / HTML dump operation raised
    \* ---- main(): the loop over the accounts
    entry,          \* "main" (src/main.py) | "main996" (src/checkin_996/main.py)
    loaded,         \* "none" | "list": what load_accounts / load_access_tokens gave
    accounts,       \* the loaded list (empty when there is none)
    stored_hash,    \* content of the hash file
    last_hash,      \* the local last_balance_hash / last_checkin_hash
    m_pc,           \* position in main / run_main
    idx,            \* the loop index i + 1
    started,        \* accounts whose check-in was called, in order
    finished,       \* accounts whose check-in returned or raised, in order
    received,       \* what each finished check-in gave: its results, or raised
    processed,      \* accounts whose loop body was entered, in order
    success_count,  \* the local of that name
    total_count,    \* the local of that name
    need_notify,    \* the local of that name
    notes,          \* notification_content, one tag per account entry
    current_balances, \* current_balances / current_checkin_info
    pushed,         \* number of notify.push_message calls
    main_ret,       \* "none" | "1": what `return` gave back from main()
    exit_code,      \* "none" | "0" | "1": exit status of the process
    \* --- AppConfig.load_from_env (src/utils/config.py) ---
    providers_env,  \* the value of the PROVIDERS environment variable
    providers,      \* the local dict `providers`: name -> ProviderConfig
    c_pc,           \* position in load_from_env
    c_i,            \* index of the item of providers_data the loop is at
    \* --- load_accounts (src/main.py) ---
    a_pc,           \* position in load_accounts
    a_kind,         \* what ACCOUNTS holds: unset, empty, invalid, object, list
    a_entries,      \* the entries of accounts_data the loop has read, in order
    a_accounts,     \* the local list `accounts`
    a_ret,          \* "running" | "None" | "list": what load_accounts returned
    \* --- CheckIn.check_in_with_token (src/checkin_996/checkin.py) ---
    t_pc,           \* position in check_in_with_token
    t_post,         \* the answer to the check-in request, once made
    t_info,         \* the answer to the check-in-info request, once made
    t_calls,        \* the calls made on the client, in order
    t_success,      \* the local `success`
    t_ret           \* what check_in_with_token returned, or that it raised

\* The state of the caller, which signin leaves alone.
caller == <<entry, loaded, accounts, stored_hash, last_hash, m_pc, idx, started,
            finished, received, processed, success_count, total_count, need_notify,
            notes, current_balances, pushed, main_ret, exit_code>>

\* The state of one signin invocation.
signin_vars == <<provider, auth_cookies, cache_exists, saves, pc, storage_state,
                 is_logged_in, captured, probe,
                 browser, context, page, query, api_user, ret, outcome, log,
                 diag_ok>>

\* The locals of the library functions that are specified on their own.
config_vars == <<providers_env, providers, c_pc, c_i>>
accounts_vars == <<a_pc, a_kind, a_entries, a_accounts, a_ret>>
token_vars == <<t_pc, t_post, t_info, t_calls, t_success, t_ret>>
lib_vars == <<config_vars, accounts_vars, token_vars>>

ConfigIdle ==
    /\ providers_env = [kind |-> "unset", items |-> <<>>]
    /\ providers = <<>>
    /\ c_pc = "idle"
    /\ c_i = 0

AccountsIdle ==
    /\ a_pc = "idle"
    /\ a_kind = "unset"
    /\ a_entries = <<>>
    /\ a_accounts = <<>>
    /\ a_ret = "running"

\* No request made yet: the placeholder of a response.
NoResponse ==
    [status |-> 0,
     body |-> [json |-> "none", success |-> FALSE, code |-> "absent",
               message |-> "absent", data |-> "absent"]]

TokenIdle ==
    /\ t_pc = "idle"
    /\ t_post = NoResponse
    /\ t_info = NoResponse
    /\ t_calls = <<>>
    /\ t_success = FALSE
    /\ t_ret = [kind |-> "running", success |-> FALSE, value |-> "none"]

LibIdle == ConfigIdle /\ AccountsIdle /\ TokenIdle

vars == <<signin_vars, caller, lib_vars>>

-----------------------------------------------------------------------------
(* Bounds *)

\* longest query string (number of key=value pairs) of a callback URL
MaxQueryLen == 2

\* longest list of accounts, most authentication methods of one account
MaxAccounts == 2
MaxMethods == 2

-----------------------------------------------------------------------------
(* Values *)

Providers == {"github", "linuxdo"}

\* JSON values an "id" member can hold; Truthy is Python's `if api_user:`
JNull == [t |-> "null"]
JNum(n) == [t |-> "num", n |-> n]
JStr(s) == [t |-> "str", s |-> s]
IdValues == {JNull, JNum(0), JNum(7), JStr("")}
Truthy(v) ==
    CASE v.t = "null" -> FALSE
      [] v.t = "num"  -> v.n # 0
      [] v.t = "str"  -> v.s # ""

\* what page.evaluate("() => localStorage.getItem('user')") can return
UserDatas ==
    {[k |-> "null"],      \* no such item: None
     [k |-> "empty"],     \* the empty string
     [k |-> "invalid"],   \* text that is not JSON: json.loads raises
     [k |-> "scalar"],    \* JSON that is no object: .get raises
     [k |-> "object", has_id |-> FALSE, id |-> JNull]}
    \cup {[k |-> "object", has_id |-> TRUE, id |-> v] : v \in IdValues}

\* The identifier read from the user object: json.loads(user_data).get("id"),
\* None when user_data is falsy or reading it raises (caught).
ExtractApiUser(user_data) ==
    CASE user_data.k \in {"null", "empty"}     -> JNull
      [] user_data.k \in {"invalid", "scalar"} -> JNull
      [] user_data.k = "object" ->
            IF user_data.has_id THEN user_data.id ELSE JNull

\* Query strings of the callback URL: sequences of <<key, value>> pairs.  The
\* page stays on the callback URL once wait_for_url has matched it, so the
\* query is drawn where the code reads page.url.
QueryKeys == {"code", "state", "error"}
QueryPairs ==
    {<<"code", "abc123">>, <<"code", "">>, <<"state", "s1">>, <<"error", "denied">>}
Queries == UNION {[1..n -> QueryPairs] : n \in 0..MaxQueryLen}
NoQuery == <<<<"unread", "">>>>

\* urllib.parse.parse_qs(query): a dict from each key that has at least one
\* non-blank value to the list of its non-blank values, in order (blank values
\* are dropped: keep_blank_values defaults to False).
RECURSIVE ValuesOf(_, _)
ValuesOf(q, key) ==
    IF q = <<>> THEN <<>>
    ELSE (IF Head(q)[1] = key /\ Head(q)[2] # "" THEN <<Head(q)[2]>> ELSE <<>>)
         \o ValuesOf(Tail(q), key)
parse_qs(q) ==
    [key \in {k \in QueryKeys : ValuesOf(q, k) # <<>>} |-> ValuesOf(q, key)]

\* Cookies of the browser context: name and domain (labels, leftmost first).
OriginHost == <<"app", "example", "com">>
Cookies ==
    {[name |-> "session", domain |-> <<"app", "example", "com">>],
     [name |-> "sso",     domain |-> <<"example", "com">>],
     [name |-> "api",     domain |-> <<"api", "example", "com">>],
     [name |-> "gh",      domain |-> <<"github", "com">>]}

IsSuffix(s, t) ==
    /\ Len(s) <= Len(t)
    /\ \A i \in 1..Len(s) : s[i] = t[Len(t) - Len(s) + i]

\* utils.browser_utils.filter_cookies(cookies, origin): the cookies whose
\* domain is the origin's host or a registrable parent domain of it.
filter_cookies(cookies) ==
    {c \in cookies : Len(c.domain) >= 2 /\ IsSuffix(c.domain, OriginHost)}

\* Results of the try block.
NoRet == [kind |-> "none"]
Exc == [kind |-> "exc"]
Value(flag, dict) == [kind |-> "value", flag |-> flag, dict |-> dict]

ErrMsgGeneric(kind) ==
    IF provider = "github" THEN "GitHub authorization failed"
    ELSE "Linux.do authorization failed"

\* The error strings of the two classes.
ErrMsg(kind) ==
    IF provider = "github"
    THEN CASE kind = "signin"    -> "GitHub sign-in error"
           [] kind = "authorize" -> "GitHub authorization approval failed"
           [] kind = "auth"      -> "GitHub authorization failed"
           [] kind = "no_code"   -> "GitHub OAuth failed - no code in callback"
    ELSE CASE kind = "signin"    -> "Linux.do sign-in error"
           [] kind = "authorize" -> "Linux.do authorization page navigation failed"
           [] kind = "auth"      -> "Linux.do authorization failed"
           [] kind = "no_button" -> "Linux.do allow button not found"
           [] kind = "no_code"   -> "Linux.do OAuth failed - no code in callback"

\* The screenshot reasons of the two classes.
ShotOf(kind) ==
    IF provider = "github"
    THEN CASE kind = "signin"    -> "shot:github_signin_error"
           [] kind = "authorize" -> "shot:github_auth_approval_failed"
           [] kind = "auth"      -> "shot:github_authorization_failed"
           [] kind = "no_user"   -> "shot:github_oauth_failed_no_user_id"
    ELSE CASE kind = "signin"    -> "shot:signin_bypass_error"
           [] kind = "authorize" -> "shot:auth_page_navigation_failed_bypass"
           [] kind = "auth"      -> "shot:authorization_failed_bypass"
           [] kind = "no_button" -> "shot:approve_button_not_found_bypass"
           [] kind = "no_user"   -> "shot:oauth_failed_no_user_id_bypass"

Did(e) == \E i \in 1..Len(log) : log[i] = e
Count(e) == Cardinality({i \in 1..Len(log) : log[i] = e})

-----------------------------------------------------------------------------
(* Init: signin is called; the cache file may or may not exist. *)

\* Hashes of the change detection: none (None), the empty string, or the
\* digest of a balances mapping, which stands for itself (sha256 is taken to
\* be injective on the few mappings here).
NoHash == [k |-> "none"]
EmptyHash == [k |-> "empty"]
HashOfMap(m) == [k |-> "hash", of |-> m]
NoBalances == [a \in {} |-> <<>>]

\* The caller before main() has run.
CallerIdle ==
    /\ entry = "main"
    /\ loaded = "none"
    /\ accounts = <<>>
    /\ stored_hash = NoHash
    /\ last_hash = NoHash
    /\ m_pc = "start"
    /\ idx = 1
    /\ started = <<>>
    /\ finished = <<>>
    /\ received = <<>>
    /\ processed = <<>>
    /\ success_count = 0
    /\ total_count = 0
    /\ need_notify = FALSE
    /\ notes = <<>>
    /\ current_balances = NoBalances
    /\ pushed = 0
    /\ main_ret = "none"
    /\ exit_code = "none"

Init ==
    /\ CallerIdle
    /\ LibIdle
    /\ provider \in Providers
    /\ auth_cookies \in BOOLEAN
    /\ cache_exists \in BOOLEAN
    /\ saves = 0
    /\ pc = "enter_browser"
    /\ storage_state = FALSE
    /\ is_logged_in = FALSE
    /\ captured = {}
    /\ probe = "none"
    /\ browser = "none"
    /\ context = "none"
    /\ page = "none"
    /\ query = NoQuery
    /\ api_user = JNull
    /\ ret = NoRet
    /\ outcome = "running"
    /\ log = <<>>
    /\ diag_ok = TRUE

inputs == <<provider, auth_cookies, caller, lib_vars>>
cache == <<cache_exists, saves>>
handles == <<browser, context, page>>
locals == <<storage_state, is_logged_in, captured, probe, api_user>>

-----------------------------------------------------------------------------
(* Helpers shared by the steps *)

\* A step that completes normally: it performed `evs` and goes on at `next`.
Continue(evs, next) ==
    /\ log' = log \o evs
    /\ pc' = next
    /\ ret' = ret

\* _take_screenshot / _save_page_content_to_file: whatever page.screenshot or
\* page.content does, the exception is caught inside and nothing is returned.
Diagnose ==
    \E op_ok \in BOOLEAN : diag_ok' = (diag_ok /\ op_ok)

\* An except handler of a stage: the step performed `evs` and raised; the
\* handler takes the screenshot and returns (False, {"error": ...}).
Failed(evs, kind) ==
    /\ Diagnose
    /\ log' = log \o evs \o <<ShotOf(kind)>>
    /\ ret' = Value(FALSE, [error |-> ErrMsg(kind)])
    /\ pc' = "finally"

\* An exception outside the try statement: it leaves signin through the
\* `async with` block; the finally clause is not in its way.
Propagate(evs) ==
    /\ log' = log \o evs
    /\ ret' = Exc
    /\ pc' = "exit_browser"
    /\ diag_ok' = diag_ok

-----------------------------------------------------------------------------
(* Setup: the browser, the context, the page *)

\* `async with AsyncCamoufox(...) as browser`.  The launch precedes every
\* operation of signin on the context and the page.
EnterBrowser ==
    /\ pc = "enter_browser"
    /\ browser' = "open"
    /\ Continue(<<>>, "new_context")
    /\ UNCHANGED <<inputs, cache, locals, context, page, query, outcome, diag_ok>>

\* storage_state = cache_file_path if it exists; browser.new_context(...)
NewContext ==
    /\ pc = "new_context"
    /\ storage_state' = cache_exists
    /\ \E ok \in BOOLEAN :
         IF ok
         THEN /\ context' = "open"
              /\ Continue(<<"new_context">>, "add_cookies")
              /\ diag_ok' = diag_ok
         ELSE /\ context' = context
              /\ Propagate(<<"new_context">>)
    /\ UNCHANGED <<inputs, cache, is_logged_in, captured, probe, api_user,
                   browser, page, query, outcome>>

\* if auth_cookies: await context.add_cookies(auth_cookies)
AddCookies ==
    /\ pc = "add_cookies"
    /\ IF auth_cookies
       THEN \E ok \in BOOLEAN :
              IF ok
              THEN Continue(<<"add_cookies">>, "new_page") /\ diag_ok' = diag_ok
              ELSE Propagate(<<"add_cookies">>)
       ELSE Continue(<<>>, "new_page") /\ diag_ok' = diag_ok
    /\ UNCHANGED <<inputs, cache, locals, handles, query, outcome>>

\* page = await context.new_page()
NewPage ==
    /\ pc = "new_page"
    /\ \E ok \in BOOLEAN :
         IF ok
         THEN /\ page' = "open"
              /\ Continue(<<"new_page">>, "cache_check")
              /\ diag_ok' = diag_ok
         ELSE /\ page' = page
              /\ Propagate(<<"new_page">>)
    /\ UNCHANGED <<inputs, cache, locals, browser, context, query, outcome>>

-----------------------------------------------------------------------------
(* Cache check *)

\* What the probe of the authorize URL can observe:
\*   "origin"      response.url starts with provider_config.origin
\*   "approve"     the approve control was found (GitHub: and clicked)
\*   "neither"     no approve control
\*   "error_goto"  page.goto raised
\*   "error_query" page.query_selector raised
\*   "error_click" GitHub only: the control was found, clicking it raised
ProbeObs ==
    {"origin", "approve", "neither", "error_goto", "error_query"}
    \cup (IF provider = "github" THEN {"error_click"} ELSE {})

ProbeLoggedInNever(obs) == FALSE

ProbeLoggedInOriginOnly(obs) == obs = "origin"

\* The value is_logged_in has when the probe's try statement is left.  GitHub
\* sets it before the click, so it is set when the click raises.
ProbeLoggedIn(obs) ==
    obs \in {"origin", "approve", "error_click"}

AfterCacheCheckProbesAgain(logged_in) ==
    IF ~logged_in THEN "login" ELSE "cache_check"

AfterCacheCheckSaves(logged_in) ==
    IF ~logged_in THEN "login" ELSE "save"

AfterCacheCheckSkipLogin(logged_in) ==
    IF provider = "github" THEN "callback" ELSE "consent"

\* `if not is_logged_in:` the login stage, else the unified authorization
\* logic: the callback wait (GitHub), the consent stage (Linux.do).
AfterCacheCheck(logged_in) ==
    IF ~logged_in THEN "login"
    ELSE IF provider = "github" THEN "callback" ELSE "consent"

ShouldProbeAlways == TRUE

\* `if os.path.exists(cache_file_path):` the probe runs only with a cache file.
ShouldProbe == cache_exists

CacheCheck ==
    /\ pc = "cache_check"
    /\ IF ~ShouldProbe
       THEN /\ probe' = "none"
            /\ is_logged_in' = FALSE
            /\ Continue(<<>>, AfterCacheCheck(FALSE))
       ELSE \E obs \in ProbeObs :
            /\ probe' = obs
            /\ is_logged_in' = ProbeLoggedIn(obs)
            \* (the dump at github 147 is a coroutine that is never awaited)
            /\ Continue(<<"probe">> \o
                        (IF provider = "github" /\ obs \in {"approve", "error_click"}
                         THEN <<"approve_click">> ELSE <<>>),
                        AfterCacheCheck(ProbeLoggedIn(obs)))
    /\ UNCHANGED <<inputs, cache, storage_state, captured, api_user, handles,
                   query, outcome, diag_ok>>

-----------------------------------------------------------------------------
(* Login stage *)

\* goto the login page, fill the two fields, click the submit control, wait,
\* dump the page.  `r` is the operation that raised, if any.
LoginSubmit ==
    /\ pc = "login"
    /\ \E r \in {"goto", "fill", "click", "wait", "ok"} :
         LET evs == <<"login_nav">> \o
                    (IF r \in {"click", "wait", "ok"} THEN <<"submit">> ELSE <<>>)
         IN  IF r = "ok"
             THEN /\ Diagnose
                  /\ Continue(evs \o <<"dump:sign_in_result">>,
                              IF provider = "github" THEN "switch_account"
                              ELSE "challenge")
             ELSE Failed(evs, "signin")
    /\ UNCHANGED <<inputs, cache, locals, handles, query, outcome>>

SwitchAccountSwallowsNothing(o) == o \notin {"raise_query", "raise_click"}

\* `except Exception as e:` of the account-selection block: whatever raised,
\* the flow goes on.
SwitchAccountSwallows(o) == TRUE

\* GitHub: the account-selection interstitial: query the marker form, then its
\* submit control, click it; the try statement swallows every exception.
GH_SwitchAccount ==
    /\ pc = "switch_account"
    /\ \E o \in {"absent", "no_button", "clicked", "raise_query", "raise_click"} :
         LET evs == CASE o = "clicked" ->
                           <<"switch_check", "switch_click", "dump:account_selected">>
                      [] o = "raise_click" -> <<"switch_check", "switch_click">>
                      [] OTHER -> <<"switch_check">>
         IN  IF SwitchAccountSwallows(o)
             THEN /\ IF o = "clicked" THEN Diagnose ELSE diag_ok' = diag_ok
                  /\ Continue(evs, "two_factor")
             ELSE Failed(evs, "signin")
    /\ UNCHANGED <<inputs, cache, locals, handles, query, outcome>>

\* What WaitForSecrets().get can give: a code, an empty code, nothing, a
\* mapping without "OTP", or an exception.  otp_code is set from it.
SecretOutcomes == {"code", "empty_code", "none", "no_otp_key", "raise"}

OtpCodeAlwaysUsable(s) == TRUE

\* `if otp_code:` after `if secrets and "OTP" in secrets`.
OtpCodeUsable(s) == s = "code"

TwoFactorSwallowsButTimeout(f) == f # "url_timeout"

\* `except Exception: pass` around wait_for_url and the `except Exception` of
\* the whole two-factor block: whatever `f` raised, the flow goes on.
TwoFactorSwallows(f) == TRUE

SecretNeededAlways(o) == TRUE

\* `if otp_input:` the secret is asked for only when the OTP field was found.
SecretNeeded(o) == o = "present"

\* GitHub: two-factor authentication; its try statement swallows every
\* exception.  The secret is requested when the OTP field is there; a usable
\* code is filled in and the URL change awaited, else the driver waits 30 s.
GH_TwoFactor ==
    /\ pc = "two_factor"
    /\ \E o \in {"absent", "raise_query", "present"} :
         IF ~SecretNeeded(o)
         THEN /\ diag_ok' = diag_ok
              /\ Continue(<<"otp_check">>, "save")
         ELSE \E s \in SecretOutcomes :
            LET got == <<"otp_check">> \o
                       (IF o = "present" THEN <<"otp_field">> ELSE <<>>) \o
                       <<"secret_request",
                         IF s = "code" THEN "secret_code" ELSE "secret_unavailable">>
            IN
            IF OtpCodeUsable(s)
            THEN \E f \in {"fill_raise", "url_changed", "url_timeout"} :
                   LET evs == got \o
                         (CASE f = "fill_raise"  -> <<"otp_fill">>
                            [] f = "url_changed" ->
                                 <<"otp_fill", "dump:otp_filled", "otp_wait">>
                            [] f = "url_timeout" ->
                                 <<"otp_fill", "dump:otp_filled", "otp_wait",
                                   "otp_wait_timeout">>)
                   IN  IF TwoFactorSwallows(f)
                       THEN /\ IF f = "fill_raise" THEN diag_ok' = diag_ok
                                                   ELSE Diagnose
                            /\ Continue(evs, "save")
                       ELSE Failed(evs, "signin")
            ELSE /\ diag_ok' = diag_ok
                 /\ Continue(got \o <<"passive_wait">>, "save")
    /\ UNCHANGED <<inputs, cache, locals, handles, query, outcome>>

ChallengeSwallowsButTimeout(o) == o # "timeout"

\* `except Exception as e: ... pass` around the challenge wait.
ChallengeSwallows(o) == TRUE

\* Linux.do: the Cloudflare challenge; its try statement swallows every
\* exception, the timeout of wait_for_selector among them.
LD_Challenge ==
    /\ pc = "challenge"
    /\ \E o \in {"no_challenge", "bypassed", "timeout"} :
         LET evs == CASE o = "no_challenge" -> <<>>
                      [] o = "bypassed"     -> <<"challenge_wait">>
                      [] o = "timeout"      -> <<"challenge_wait", "challenge_timeout">>
         IN  IF ChallengeSwallows(o)
             THEN /\ diag_ok' = diag_ok
                  /\ Continue(evs, "save")
             ELSE Failed(evs, "signin")
    /\ UNCHANGED <<inputs, cache, locals, handles, query, outcome>>

SaveStateSkipped ==
    /\ pc = "save"
    /\ diag_ok' = diag_ok
    /\ Continue(<<>>, "authorize")
    /\ UNCHANGED <<inputs, cache, locals, handles, query, outcome>>

\* await context.storage_state(path=cache_file_path)
SaveState ==
    /\ pc = "save"
    /\ \E ok \in BOOLEAN :
         IF ok
         THEN /\ cache_exists' = TRUE
              /\ saves' = saves + 1
              /\ diag_ok' = diag_ok
              /\ Continue(<<"save">>, "authorize")
         ELSE /\ UNCHANGED cache
              /\ Failed(<<"save_failed">>, "signin")
    /\ UNCHANGED <<inputs, locals, handles, query, outcome>>

-----------------------------------------------------------------------------
(* Authorization page after a login *)

\* The page is past consent: the navigation to the authorize URL ended inside
\* the relying party's origin, in the cache probe or after the login.
PastConsent == probe = "origin" \/ Did("in_origin")

\* GitHub: goto the authorize URL; inside the origin nothing is clicked, else
\* the approve control is clicked when it is there.
GH_Authorize ==
    /\ pc = "authorize" /\ provider = "github"
    /\ \E o \in {"raise_goto", "origin", "raise_query", "neither", "approve",
                 "raise_click"} :
         CASE o = "raise_goto"  -> Failed(<<"authorize_nav">>, "authorize")
           [] o = "raise_query" -> Failed(<<"authorize_nav">>, "authorize")
           [] o = "raise_click" ->
                Failed(<<"authorize_nav", "approve_click">>, "authorize")
           [] o = "approve" ->
                /\ diag_ok' = diag_ok
                /\ Continue(<<"authorize_nav", "approve_click">>, "callback")
           [] o = "origin" ->
                /\ diag_ok' = diag_ok
                /\ Continue(<<"authorize_nav", "in_origin">>, "callback")
           [] o = "neither" ->
                /\ diag_ok' = diag_ok
                /\ Continue(<<"authorize_nav", "no_approve">>, "callback")
    /\ UNCHANGED <<inputs, cache, locals, handles, query, outcome>>

\* Linux.do: goto the authorize URL; the response is not looked at, so the
\* page may be inside the origin or on the identity provider.
LD_Authorize ==
    /\ pc = "authorize" /\ provider = "linuxdo"
    /\ \E o \in {"raise_goto", "origin", "idp"} :
         CASE o = "raise_goto" -> Failed(<<"authorize_nav">>, "authorize")
           [] o = "origin" ->
                /\ diag_ok' = diag_ok
                /\ Continue(<<"authorize_nav", "in_origin">>, "consent")
           [] o = "idp" ->
                /\ diag_ok' = diag_ok
                /\ Continue(<<"authorize_nav">>, "consent")
    /\ UNCHANGED <<inputs, cache, locals, handles, query, outcome>>

\* What the consent stage of Linux.do can meet.  A page of the relying party
\* has no approve control, so there wait_for_selector can only time out.
ConsentOutcomes ==
    IF PastConsent THEN {"timeout"}
    ELSE {"timeout", "raise_query", "gone", "raise_click", "clicked"}

LD_ConsentFailsOnRaise(o) == o \in {"raise_query", "raise_click"}

\* Linux.do: everything but a click that went through ends the consent stage
\* with a failure (timeout and raises in the except clause, a control that is
\* gone in the else branch).
LD_ConsentFails(o) == o # "clicked"

\* Linux.do: wait for the approve control, query it, click it.
LD_Consent ==
    /\ pc = "consent"
    /\ \E o \in ConsentOutcomes :
         LET evs == CASE o = "timeout" ->
                           IF PastConsent THEN <<"consent_wait">>
                           ELSE <<"consent_wait", "no_approve">>
                      [] o = "raise_query" -> <<"consent_wait">>
                      [] o = "gone"        -> <<"consent_wait", "no_approve">>
                      [] o = "raise_click" -> <<"consent_wait", "approve_click">>
                      [] o = "clicked"     -> <<"consent_wait", "approve_click">>
         IN  IF LD_ConsentFails(o)
             THEN Failed(evs, IF o = "gone" THEN "no_button" ELSE "auth")
             ELSE /\ diag_ok' = diag_ok
                  /\ Continue(evs, "callback")
    /\ UNCHANGED <<inputs, cache, locals, handles, query, outcome>>

-----------------------------------------------------------------------------
(* Callback wait, identity extraction, result *)

CallbackNeverRaises(matched) == FALSE

\* page.wait_for_url("**{origin}/oauth/**", timeout=30000) raises unless the
\* URL matched within the timeout.
CallbackRaises(matched) == ~matched

\* "callback_ok" records that the URL matched the redirect pattern.
CallbackWait ==
    /\ pc = "callback"
    /\ \E matched \in BOOLEAN :
         LET evs == <<"callback_wait">> \o
                    (IF matched THEN <<"callback_ok">> ELSE <<>>)
         IN  IF CallbackRaises(matched)
             THEN Failed(evs, "auth")
             ELSE /\ diag_ok' = diag_ok
                  /\ Continue(evs, "identity")
    /\ UNCHANGED <<inputs, cache, locals, handles, query, outcome>>

\* Wait for localStorage "user" (on a timeout, wait five seconds more), read
\* it, parse it, take its "id".  An exception anywhere leaves api_user None.
ExtractIdentity ==
    /\ pc = "identity"
    /\ \E r \in {"raise", "ok"}, user_data \in UserDatas :
         api_user' = IF r = "raise" THEN JNull ELSE ExtractApiUser(user_data)
    /\ Continue(<<"identity">>, "result")
    /\ UNCHANGED <<inputs, cache, storage_state, is_logged_in, captured, probe,
                   handles, query, outcome, diag_ok>>

\* return True, {"cookies": user_cookies, "api_user": api_user}
AuthorizedUnscoped(cookies, id) ==
    Value(TRUE, [cookies |-> cookies, api_user |-> id])

\* return True, {"cookies": filter_cookies(cookies, origin), "api_user": id}
Authorized(cookies, id) ==
    Value(TRUE, [cookies |-> filter_cookies(cookies), api_user |-> id])

CodeFallbackUnchecked(query_params) == Value(TRUE, query_params)

\* `if "code" in query_params: return True, query_params`, else the
\* no-code error.
CodeFallback(query_params) ==
    IF "code" \in DOMAIN query_params
    THEN Value(TRUE, query_params)
    ELSE Value(FALSE, [error |-> ErrMsg("no_code")])

\* `if api_user:` capture and scope the cookies and return them with the
\* identifier; else take a screenshot and fall back to the query string of
\* page.url.  context.cookies() raising is caught by the stage's handler.
Result ==
    /\ pc = "result"
    /\ IF Truthy(api_user)
       THEN /\ query' = query
            /\ \E ok \in BOOLEAN, cookies \in SUBSET Cookies :
                 IF ok
                 THEN /\ captured' = cookies
                      /\ log' = log \o <<"cookies">>
                      /\ ret' = Authorized(cookies, api_user)
                      /\ pc' = "finally"
                      /\ diag_ok' = diag_ok
                 ELSE /\ captured' = captured
                      /\ Failed(<<"cookies">>, "auth")
       ELSE /\ Diagnose
            /\ captured' = captured
            /\ \E q \in Queries :
                 /\ query' = q
                 /\ ret' = CodeFallback(parse_qs(q))
            /\ log' = log \o <<ShotOf("no_user"), "parse_query">>
            /\ pc' = "finally"
    /\ UNCHANGED <<inputs, cache, storage_state, is_logged_in, probe, api_user,
                   handles, outcome>>

-----------------------------------------------------------------------------
(* Leaving signin *)

\* finally: await page.close(); await context.close().  An exception raised
\* here replaces the pending return; `r` is the operation that raised, if any.
Finally ==
    /\ pc = "finally"
    /\ \E r \in {"ok", "page_close_raises", "context_close_raises"} :
         /\ page' = IF r = "page_close_raises" THEN page ELSE "closed"
         /\ context' = IF r = "ok" THEN "closed" ELSE context
         /\ ret' = IF r = "ok" THEN ret ELSE Exc
    /\ pc' = "exit_browser"
    /\ UNCHANGED <<inputs, cache, locals, browser, query, outcome, log, diag_ok>>

\* The end of the `async with` block: the browser is shut down, and the caller
\* receives the returned tuple or the exception.
ExitBrowser ==
    /\ pc = "exit_browser"
    /\ browser' = "closed"
    /\ outcome' = IF ret.kind = "value" THEN "returned" ELSE "raised"
    /\ pc' = "done"
    /\ UNCHANGED <<inputs, cache, locals, context, page, query, ret, log, diag_ok>>

Next ==
    \/ EnterBrowser \/ NewContext \/ AddCookies \/ NewPage
    \/ CacheCheck
    \/ LoginSubmit \/ GH_SwitchAccount \/ GH_TwoFactor \/ LD_Challenge \/ SaveState
    \/ GH_Authorize \/ LD_Authorize \/ LD_Consent
    \/ CallbackWait \/ ExtractIdentity \/ Result
    \/ Finally \/ ExitBrowser

Spec == Init /\ [][Next]_vars

\* signin is one coroutine: the event loop resumes it after every await, and
\* every await of the flow ends by its event or by its timeout.
FairSpec == Spec /\ WF_vars(Next)

-----------------------------------------------------------------------------
(* Properties of signin *)

Done == pc = "done"
Pending == ret.kind = "value"
CallbackTimedOut == Did("callback_wait") /\ ~Did("callback_ok")

\* Every occurrence of `e` in the log comes after an occurrence of `first`.
OnlyAfter(e, first) ==
    \A i \in 1..Len(log) : log[i] = e => \E j \in 1..(i - 1) : log[j] = first

\* The three shapes of a result.
IsAuthorized(r) ==
    /\ r.flag
    /\ DOMAIN r.dict = {"cookies", "api_user"}
    /\ Truthy(r.dict.api_user)
IsDegraded(r) ==
    /\ r.flag
    /\ "code" \in DOMAIN r.dict
    /\ DOMAIN r.dict \subseteq QueryKeys
    /\ \A k \in DOMAIN r.dict : Len(r.dict[k]) >= 1
IsFailed(r) ==
    /\ ~r.flag
    /\ DOMAIN r.dict = {"error"}

\* C1: signin never propagates an exception to its caller: whatever browser
\* operation raises, the invocation ends with one returned (flag, dict).
C1_NeverPropagates ==
    /\ outcome # "raised"
    /\ Done => outcome = "returned" /\ Pending

C3_CallbackTimeoutFails ==
    (Done /\ CallbackTimedOut) =>
        /\ outcome = "returned"
        /\ ret = Value(FALSE, [error |-> ErrMsg("auth")])

\* What holds of C3 in the runs where the finally clause does not raise.
C3_TimeoutNeverSucceeds ==
    (Pending /\ CallbackTimedOut) => ret = Value(FALSE, [error |-> ErrMsg("auth")])

\* C4: a success result is produced only after the URL was seen to match the
\* redirect pattern in this invocation, and identity extraction and cookie
\* capture run only after that.
C4_CallbackGate ==
    /\ (Pending /\ ret.flag) => Did("callback_ok")
    /\ pc \in {"identity", "result"} => Did("callback_ok")
    /\ OnlyAfter("identity", "callback_ok")
    /\ OnlyAfter("cookies", "callback_ok")
    /\ OnlyAfter("parse_query", "callback_ok")

\* C4 witness: an Authorized result was returned after the callback matched.
C4_Witness ==
    /\ Done /\ outcome = "returned" /\ ret.flag
    /\ Did("callback_ok") /\ Did("cookies")

\* The callback URL's query string has a `code` parameter.
HasCodeParam(q) == \E i \in 1..Len(q) : q[i][1] = "code"

\* C5: after the callback, when identity extraction gave no identifier, the
\* result follows the callback URL's query string alone: with a `code`
\* parameter signin returns (True, parsed query parameters), without one it
\* returns (False, {error: no code in callback}).
C5_NoIdentityFallback ==
    (Done /\ Did("identity") /\ ~Truthy(api_user)) =>
        /\ outcome = "returned"
        /\ HasCodeParam(query) => ret = Value(TRUE, parse_qs(query))
        /\ ~HasCodeParam(query) => ret = Value(FALSE, [error |-> ErrMsg("no_code")])

\* What holds of C5 of the value the return statement is given.
C5_FallbackOnParsedCode ==
    (Pending /\ Did("parse_query")) =>
        /\ ~Truthy(api_user)
        /\ ret = IF "code" \in DOMAIN parse_qs(query)
                 THEN Value(TRUE, parse_qs(query))
                 ELSE Value(FALSE, [error |-> ErrMsg("no_code")])

\* C6: after the callback, when the user object gave an identifier, signin
\* returns (True, {cookies, api_user}) with exactly these two keys, the
\* scoped cookies and the identifier read.
C6_AuthorizedOnIdentity ==
    (Done /\ Did("identity") /\ Truthy(api_user)) =>
        /\ outcome = "returned"
        /\ ret.flag
        /\ DOMAIN ret.dict = {"cookies", "api_user"}
        /\ ret.dict.api_user = api_user
        /\ ret.dict.cookies = filter_cookies(ret.dict.cookies)

\* C7: every result signin produces has exactly one of the three shapes:
\* (True, {cookies, api_user}) with an identifier, (True, query parameters
\* with `code`), (False, {error}).
C7_ResultShapes ==
    Pending =>
        /\ IsAuthorized(ret) \/ IsDegraded(ret) \/ IsFailed(ret)
        /\ ~(IsAuthorized(ret) /\ IsDegraded(ret))
        /\ ~ret.flag => DOMAIN ret.dict = {"error"}
        /\ ret.flag => DOMAIN ret.dict # {"error"}

\* C7 witness: a degraded success was returned from a query of full length.
C7_Witness ==
    Done /\ outcome = "returned" /\ IsDegraded(ret) /\ Len(query) = MaxQueryLen

\* C8: when the probe of the authorize URL lands inside the relying-party
\* origin or shows the approve control, the driver is logged in
\* (AlreadyAuthenticated) and from then on never opens the provider's login
\* page and never submits the credentials.
C8_CachedSessionSkipsLogin ==
    probe \in {"origin", "approve", "error_click"} =>
        /\ is_logged_in
        /\ pc # "login"
        /\ ~Did("login_nav")
        /\ ~Did("submit")

\* C8 witness: a run through a still-valid cached session that returned.
C8_Witness ==
    /\ Done /\ outcome = "returned"
    /\ probe \in {"origin", "approve"}
    /\ Did("callback_ok")

\* C9: an error raised during the cache-check probe (the navigation, the
\* query for the approve control, clicking it) is swallowed and leads to the
\* login stage: the driver is not logged in and the login stage runs next.
C9_ProbeErrorNeedsLogin ==
    probe \in {"error_goto", "error_query", "error_click"} =>
        /\ ~is_logged_in
        /\ pc = "login" \/ Did("login_nav")

\* C10: when a snapshot exists and the probe shows neither a relying-party
\* page nor an approve control, the login stage runs next and exactly once,
\* the probe is not repeated, and no Failed result precedes the login stage.
C10_ExpiredSessionFallsThrough ==
    probe = "neither" =>
        /\ ~is_logged_in
        /\ pc = "login" \/ Count("login_nav") = 1
        /\ Count("probe") = 1
        /\ Pending => Did("login_nav")

\* C10 witness: a run whose probe showed neither signal and that logged in.
C10_Witness ==
    /\ Done /\ probe = "neither"
    /\ Count("login_nav") = 1 /\ Count("submit") = 1

-----------------------------------------------------------------------------
(* Consent stage and session snapshot *)

\* A Failed result is pending or was returned.
HasFailed == Pending /\ IsFailed(ret)

\* C11: when the page is already past consent (the navigation to the
\* authorize URL ended inside the relying party's origin, in the cache probe
\* or after a fresh login), the consent stage is a no-op for both providers:
\* nothing is clicked, the stage produces no Failed result, and the driver
\* goes on to the callback wait.
C11_PastConsentIsNoOp ==
    PastConsent =>
        /\ ~Did("approve_click")
        /\ HasFailed => Did("callback_wait")
        /\ pc # "consent" => pc = "callback" \/ Did("callback_wait")

\* C12: when neither signal is present in the consent stage (the page is not
\* inside the relying party's origin and there is no approve control), both
\* providers still enter the callback wait, and only the callback wait (or a
\* later stage) can produce a Failed result.
C12_NeitherSignalRecoverable ==
    Did("no_approve") =>
        /\ pc = "callback" \/ Did("callback_wait")
        /\ HasFailed => Did("callback_wait")

\* C12, amended: with neither signal present, GitHub still enters the callback
\* wait and only the callback wait or a later stage can fail; Linux.do ends the
\* consent stage with a Failed result ("authorization failed" when the wait
\* for the approve control timed out, "allow button not found" when the
\* control is gone) and never enters the callback wait.
C12_NeitherSignalByProvider ==
    Did("no_approve") =>
        IF provider = "github"
        THEN /\ pc = "callback" \/ Did("callback_wait")
             /\ HasFailed => Did("callback_wait")
        ELSE /\ Did(ShotOf("auth")) \/ Did(ShotOf("no_button"))
             /\ Pending => /\ IsFailed(ret)
                            /\ ret.dict.error \in {ErrMsg("auth"), ErrMsg("no_button")}
             /\ ~Did("callback_wait")

\* C12 witness: Linux.do returned "allow button not found" from the consent
\* stage.
C12_Witness ==
    /\ Did("no_approve")
    /\ provider = "linuxdo"
    /\ Done /\ outcome = "returned"
    /\ ret.dict.error = ErrMsg("no_button")

\* The GitHub branch of C12: the callback arrived although no approve control
\* was found.
C12_GitHubBranch ==
    /\ Did("no_approve") /\ provider = "github" /\ Did("callback_ok")

C14_SnapshotDiscipline ==
    /\ saves <= 1 /\ saves = Count("save")
    /\ OnlyAfter("save", "submit")
    /\ Count("new_context") <= 1
    /\ Did("new_context") => log[1] = "new_context"
    /\ is_logged_in => saves = 0
    /\ Did(ShotOf("signin")) => saves = 0
    /\ (Did("new_context") /\ saves = 0) => cache_exists = storage_state

\* C14 witness: a fresh login without a snapshot wrote it once.
C14_Witness ==
    /\ Done /\ ~storage_state
    /\ saves = 1 /\ cache_exists
    /\ Did("submit")

\* The cache check is behind: the driver is in, or past, the first stage
\* that follows it.
PastCacheCheck ==
    \/ pc \in {"login", "switch_account", "two_factor", "challenge", "save",
                "authorize", "consent", "callback", "identity", "result"}
    \/ Pending

\* C15: without a snapshot file the context is created without stored state,
\* the cache probe is skipped and the login stage is the stage that runs, with
\* or without auth cookies; no Failed result comes before the login stage.
C15_NoSnapshotFreshLogin ==
    (Did("new_context") /\ ~storage_state) =>
        /\ ~Did("probe") /\ probe = "none"
        /\ ~is_logged_in
        /\ PastCacheCheck => pc = "login" \/ Did("login_nav")

\* C15 witness: auth cookies were supplied, there was no snapshot, the login
\* stage ran and signin returned.
C15_Witness ==
    /\ Done /\ outcome = "returned"
    /\ auth_cookies /\ ~storage_state
    /\ Did("add_cookies") /\ Did("login_nav")

-----------------------------------------------------------------------------
(* Second factor and challenge *)

\* After a swallowed wait the login stage goes on: the save is the next step,
\* a save that went through is followed by the authorize navigation, and a
\* Failed result can only come from the save or from a later stage.
GoesOnToSave ==
    /\ pc = "save" \/ Did("save") \/ Did("save_failed")
    /\ Did("save") => pc = "authorize" \/ Did("authorize_nav")
    /\ HasFailed => Did("save_failed") \/ Did("authorize_nav")

\* C16: GitHub, second-factor field present and no code from the secret
\* channel (nothing, a mapping without the code, an empty code, an exception):
\* the secret is requested once, nothing is filled in, the passive wait runs
\* exactly once, and the driver goes on to the save and the authorization
\* stage; no Failed result comes from the code being unavailable.
C16_NoCodePassiveWait ==
    Did("secret_unavailable") =>
        /\ Count("secret_request") = 1
        /\ Count("passive_wait") = 1
        /\ ~Did("otp_fill")
        /\ GoesOnToSave

\* C16 witness: no code arrived, and the run reached the authorization stage.
C16_Witness ==
    /\ Done /\ outcome = "returned"
    /\ Did("secret_unavailable") /\ Did("passive_wait")
    /\ Did("authorize_nav")

\* C17: GitHub, the secret channel returned a code: it is requested and
\* filled in once, and after the fill the driver waits for the URL to change;
\* when that wait times out the flow is not aborted: the driver goes on to
\* the save and the authorization stage.
C17_CodeEnteredTimeoutGoesOn ==
    /\ Did("secret_code") =>
          /\ Count("secret_request") = 1
          /\ Count("otp_fill") = 1
          /\ ~Did("passive_wait")
          /\ Did("dump:otp_filled") => Count("otp_wait") = 1
    /\ Did("otp_wait_timeout") =>
          /\ Did("secret_code") /\ Count("otp_wait") = 1
          /\ GoesOnToSave

\* C17 witness: the wait for the URL change timed out and the run reached
\* the authorization stage.
C17_Witness ==
    /\ Done /\ outcome = "returned"
    /\ Did("otp_wait_timeout")
    /\ Did("save") /\ Did("authorize_nav")

\* C18: Linux.do, the challenge marker did not appear in time: the timeout
\* produces no Failed result; the driver goes on to the save, the authorize
\* navigation and, when that went through, the consent stage.
C18_ChallengeTimeoutGoesOn ==
    Did("challenge_timeout") =>
        /\ GoesOnToSave
        /\ (Did("authorize_nav") /\ ~Did(ShotOf("authorize"))) =>
               pc = "consent" \/ Did("consent_wait")

\* C18 witness: the challenge wait timed out and the consent stage ran.
C18_Witness ==
    /\ Done /\ Did("challenge_timeout")
    /\ Did("save") /\ Did("consent_wait")

-----------------------------------------------------------------------------
(* Diagnostics *)

ShotEvents ==
    {"shot:github_signin_error", "shot:github_auth_approval_failed",
     "shot:github_authorization_failed", "shot:github_oauth_failed_no_user_id",
     "shot:signin_bypass_error", "shot:auth_page_navigation_failed_bypass",
     "shot:authorization_failed_bypass", "shot:approve_button_not_found_bypass",
     "shot:oauth_failed_no_user_id_bypass"}
DumpEvents == {"dump:sign_in_result", "dump:account_selected", "dump:otp_filled"}

\* C19: whenever a Failed result is produced, both a screenshot and a dump of
\* the page HTML were attempted in that invocation before it.
C19_FailedHasScreenshotAndDump ==
    HasFailed =>
        /\ \E i \in 1..Len(log) : log[i] \in ShotEvents
        /\ \E i \in 1..Len(log) : log[i] \in DumpEvents

-----------------------------------------------------------------------------
(* Stages and their errors *)

\* The stage an operation of the log belongs to.
StageOf(e) ==
    CASE e \in {"login_nav", "submit", "dump:sign_in_result", "switch_check",
                "switch_click", "dump:account_selected", "otp_check",
                "otp_field", "secret_request", "secret_code",
                "secret_unavailable", "otp_fill", "dump:otp_filled", "otp_wait",
                "otp_wait_timeout", "passive_wait", "challenge_wait",
                "challenge_timeout", "save", "save_failed"} -> "login"
      [] e \in {"authorize_nav", "in_origin", "no_approve"} ->
             IF e = "no_approve" /\ provider = "linuxdo" THEN "consent"
             ELSE "authorize"
      [] e = "approve_click" ->
             IF provider = "github" THEN "authorize" ELSE "consent"
      [] e = "consent_wait" -> "consent"
      [] e \in {"callback_wait", "callback_ok"} -> "callback"
      [] e \in {"identity", "cookies", "parse_query"} -> "identity"
      [] OTHER -> "setup"

\* The error text the claim gives to a stage whose operation raised.
StageError(stage) ==
    IF provider = "github"
    THEN CASE stage = "login"     -> "GitHub sign-in error"
           [] stage = "authorize" -> "GitHub authorization approval failed"
           [] OTHER               -> "GitHub authorization failed"
    ELSE CASE stage = "login"     -> "Linux.do sign-in error"
           [] stage = "authorize" -> "Linux.do authorization page navigation failed"
           [] OTHER               -> "Linux.do authorization failed"

\* The two Failed results that come from a condition, not from an exception:
\* they have their own screenshots and texts.
ConditionShots ==
    {"shot:approve_button_not_found_bypass",
     "shot:github_oauth_failed_no_user_id", "shot:oauth_failed_no_user_id_bypass"}

LaterStages(stage) ==
    CASE stage = "login" -> {"authorize", "consent", "callback", "identity"}
      [] stage = "authorize" -> {"consent", "callback", "identity"}
      [] stage = "consent" -> {"callback", "identity"}
      [] stage = "callback" -> {"identity"}
      [] OTHER -> {}

\* C21: a Failed result that comes from an exception carries the text of the
\* stage whose operation raised: the sign-in error for the login stage (the
\* login page, the fields, the submit, the save), the authorization-approval
\* or authorization-page-navigation error for the authorize page, the
\* authorization-failed error for consent, callback and identity; once a
\* Failed result is produced nothing of the flow runs after it, and no
\* operation of a later stage has run.
C21_ErrorNamesItsStage ==
    HasFailed =>
        /\ pc \in {"finally", "exit_browser", "done"}
        /\ \E i \in 2..Len(log) :
             /\ log[i] \in ShotEvents
             /\ \A j \in 1..Len(log) : log[j] \in ShotEvents => j = i
             /\ IF log[i] \in ConditionShots
                THEN /\ ret.dict.error \in
                          {"Linux.do allow button not found",
                           "GitHub OAuth failed - no code in callback",
                           "Linux.do OAuth failed - no code in callback"}
                     /\ i = Len(log) \/ (i + 1 = Len(log) /\ log[i + 1] = "parse_query")
                ELSE /\ i = Len(log)
                     /\ ret.dict.error = StageError(StageOf(log[i - 1]))
                     /\ StageOf(log[i - 1]) # "setup"
                     /\ \A j \in 1..(i - 1) :
                          StageOf(log[j]) \notin LaterStages(StageOf(log[i - 1]))

\* C21 witness: the save raised and signin returned the sign-in error.
C21_Witness ==
    /\ Done /\ outcome = "returned" /\ HasFailed
    /\ Did("save_failed")
    /\ ret.dict.error \in {"GitHub sign-in error", "Linux.do sign-in error"}

-----------------------------------------------------------------------------
(* Scenario, termination, cookies *)

\* The fresh-account scenario: no snapshot, no second-factor field, and the
\* login, the consent click, the callback, the identity and the capture of
\* the cookies (a cookie of the relying party among them) all went through.
FreshScenario ==
    /\ Did("new_context") /\ ~storage_state
    /\ ~Did("secret_request")
    /\ Did("save")
    /\ Did("approve_click") /\ Did("callback_ok")
    /\ Truthy(api_user)
    /\ Did("cookies") /\ filter_cookies(captured) # {}
    /\ \A i \in 1..Len(log) : log[i] \notin ShotEvents

\* C22: in the fresh-account scenario signin submits the credentials exactly
\* once, clicks the consent control exactly once and returns Authorized with a
\* non-empty cookie set and a non-empty identifier.
C22_FreshAccountScenario ==
    (Done /\ FreshScenario) =>
        /\ Count("submit") = 1
        /\ Count("approve_click") = 1
        /\ outcome = "returned"
        /\ IsAuthorized(ret)
        /\ ret.dict.cookies # {}

\* The place of a control point in the text of signin.
StageRank(p) ==
    CASE p = "enter_browser" -> 0
      [] p = "new_context" -> 1
      [] p = "add_cookies" -> 2
      [] p = "new_page" -> 3
      [] p = "cache_check" -> 4
      [] p = "login" -> 5
      [] p = "switch_account" -> 6
      [] p = "two_factor" -> 7
      [] p = "challenge" -> 7
      [] p = "save" -> 8
      [] p = "authorize" -> 9
      [] p = "consent" -> 10
      [] p = "callback" -> 11
      [] p = "identity" -> 12
      [] p = "result" -> 13
      [] p = "finally" -> 14
      [] p = "exit_browser" -> 15
      [] p = "done" -> 16

\* The operation that opens each stage.
StageOpeners ==
    {"probe", "login_nav", "switch_check", "otp_check", "challenge_wait",
     "authorize_nav", "consent_wait", "callback_wait", "identity"}

\* C23: every invocation of signin terminates: no step goes back to an
\* earlier stage or stays in its stage, each stage is entered at most once,
\* every wait ends (by its event or its timeout), so once the flow is in its
\* stages a result is eventually produced and signin eventually ends.
C23_Terminates ==
    /\ [][StageRank(pc') > StageRank(pc)]_vars
    /\ [](\A e \in StageOpeners : Count(e) <= 1)
    /\ [](pc = "cache_check" => <>Pending)
    /\ <>Done

\* C23 witness: a run that went through every GitHub stage and ended.
C23_Witness ==
    /\ Done /\ outcome = "returned"
    /\ \A e \in StageOpeners \ {"challenge_wait", "consent_wait", "probe"} : Did(e)

\* A cookie's domain is the origin's host or a parent domain of it.
DomainMatchesOrigin(c) ==
    \E k \in 2..Len(OriginHost) :
        c.domain = SubSeq(OriginHost, Len(OriginHost) - k + 1, Len(OriginHost))

\* C26: the cookies of an Authorized result are the scoped cookies of the
\* browser context as captured after the callback: a subset of the captured
\* cookies, each with a domain that is the origin's host or a parent domain
\* of it, none of the matching ones left out, and scoping them again gives
\* the same set.
C26_AuthorizedCookiesScoped ==
    (Pending /\ IsAuthorized(ret)) =>
        /\ Did("cookies") /\ OnlyAfter("cookies", "callback_ok")
        /\ ret.dict.cookies \subseteq captured
        /\ \A c \in ret.dict.cookies : DomainMatchesOrigin(c)
        /\ \A c \in captured : DomainMatchesOrigin(c) => c \in ret.dict.cookies
        /\ filter_cookies(ret.dict.cookies) = ret.dict.cookies

\* C26 witness: a foreign cookie was captured and a scoped one returned.
C26_Witness ==
    /\ Done /\ outcome = "returned" /\ IsAuthorized(ret)
    /\ \E c \in captured : c \notin ret.dict.cookies
    /\ ret.dict.cookies # {}

-----------------------------------------------------------------------------
(* Clicks, account selection, secret channel *)

\* Every occurrence of `e` in the log comes before every occurrence of `later`.
Before(e, later) ==
    \A i, j \in 1..Len(log) : (log[i] = e /\ log[j] = later) => i < j

\* C27: in one invocation the credentials are submitted at most once and the
\* approve control is clicked at most once; a GitHub run that clicked the
\* approve control in the cache check never runs the login stage, so it never
\* clicks it again after a login.
C27_OneSubmitOneApprove ==
    /\ Count("submit") <= 1
    /\ Count("approve_click") <= 1
    /\ (Did("approve_click") /\ Did("login_nav")) => Before("login_nav", "approve_click")
    /\ (provider = "github" /\ probe \in {"approve", "error_click"}) =>
          ~Did("login_nav") /\ ~Did("authorize_nav")

\* C27 witness: GitHub clicked the approve control in the cache check and the
\* run ended after the callback.
C27_Witness ==
    /\ Done /\ provider = "github" /\ probe = "approve"
    /\ Count("approve_click") = 1 /\ Did("callback_ok")

\* C28: GitHub handles the account-selection interstitial before the
\* second-factor check; its submit control is clicked at most once, and
\* whatever the interstitial shows (no marker, no submit control, a click, an
\* exception) the flow is not failed by it and the second-factor check is
\* the next step.
C28_AccountSelectionBeforeSecondFactor ==
    /\ Count("switch_check") <= 1 /\ Count("switch_click") <= 1
    /\ OnlyAfter("switch_click", "switch_check")
    /\ OnlyAfter("otp_check", "switch_check")
    /\ Before("switch_click", "otp_check")
    /\ Did("switch_check") =>
          /\ provider = "github"
          /\ pc = "two_factor" \/ Did("otp_check")
          /\ HasFailed => Did("otp_check")
    /\ (provider = "github" /\ Did("dump:sign_in_result")) =>
          pc = "switch_account" \/ Did("switch_check")

\* C28 witness: the click on the interstitial raised and the run went on to
\* the second-factor check and returned.
C28_Witness ==
    /\ Done /\ outcome = "returned"
    /\ Did("switch_click") /\ ~Did("dump:account_selected")
    /\ Did("otp_check") /\ Did("save")

\* C29: the secret channel is asked only by GitHub, only when the
\* second-factor field was found, only after the credentials were submitted,
\* at most once, and never in a run that found itself already authenticated.
C29_SecretOnlyForSecondFactor ==
    Did("secret_request") =>
        /\ provider = "github"
        /\ ~is_logged_in
        /\ Count("secret_request") = 1
        /\ OnlyAfter("secret_request", "submit")
        /\ OnlyAfter("secret_request", "otp_field")

\* C29 witness: a GitHub run that asked for the secret and returned.
C29_Witness ==
    /\ Done /\ outcome = "returned"
    /\ provider = "github" /\ Did("otp_field") /\ Did("secret_request")

-----------------------------------------------------------------------------
(* main(): the loop over the accounts (src/main.py, src/checkin_996/main.py) *)

Entries == {"main", "main996"}

\* An account of the list: whether app_config.get_provider finds its provider
\* (the tokens of checkin_996 have no provider to look up).
AccountLists == UNION {[1..n -> [known : BOOLEAN]] : n \in 0..MaxAccounts}
TokenLists == UNION {[1..n -> [known : {TRUE}]] : n \in 1..MaxAccounts}

\* One (auth_method, success, user_info) result of CheckIn.execute:
\*   "ok1", "ok2"  success with user_info["success"] truthy and a quota
\*   "broken"      the same, but user_info lacks a key the loop reads
\*   "unconfirmed" success with a user_info that does not say success
\*   "failed"      no success, user_info with an error
\*   "failed_none" no success, user_info None
MethodResults == {"ok1", "ok2", "broken", "unconfirmed", "failed", "failed_none"}
ResultLists == UNION {[1..n -> MethodResults] : n \in 0..MaxMethods}
QuotaOf(r) == IF r = "ok1" THEN 1 ELSE 2

\* The loop over the results of one account (main.py 234-255): the number of
\* success_count increments, the balances collected, the failed methods, and
\* whether reading user_info raised, which ends the loop.
RECURSIVE Tally(_)
Tally(rs) ==
    IF rs = <<>>
    THEN [succ |-> 0, quotas |-> <<>>, failed |-> 0, raised |-> FALSE]
    ELSE IF Head(rs) = "broken"
    THEN [succ |-> 1, quotas |-> <<>>, failed |-> 0, raised |-> TRUE]
    ELSE LET t == Tally(Tail(rs)) IN
         IF Head(rs) \in {"ok1", "ok2"}
         THEN [succ |-> t.succ + 1, quotas |-> <<QuotaOf(Head(rs))>> \o t.quotas,
               failed |-> t.failed, raised |-> t.raised]
         ELSE [succ |-> t.succ, quotas |-> <<>> \o t.quotas,
               failed |-> t.failed + 1, raised |-> t.raised]

\* dict[key] = value
Put(m, key, value) ==
    [a \in DOMAIN m \cup {key} |-> IF a = key THEN value ELSE m[a]]

\* generate_balance_hash(current_balances) if current_balances else None
BalanceHash(m) == IF DOMAIN m = {} THEN NoHash ELSE HashOfMap(m)

\* generate_checkin_hash(current_checkin_info): "" for no entry at all, else
\* the digest of the rewards of the entries that are truthy.
CheckinHash(m) ==
    IF DOMAIN m = {} THEN EmptyHash
    ELSE HashOfMap([a \in {b \in DOMAIN m : m[b] # <<>>} |-> m[a]])

HashTruthyAlways(h) == TRUE

\* `if current_balance_hash:` / `if not last_checkin_hash`
HashTruthy(h) == h.k = "hash"

StoredHashes == {NoHash, HashOfMap([a \in {1} |-> <<1>>])}

signin_idle ==
    /\ provider = "github"
    /\ auth_cookies = FALSE
    /\ cache_exists = FALSE
    /\ saves = 0
    /\ pc = "enter_browser"
    /\ storage_state = FALSE
    /\ is_logged_in = FALSE
    /\ captured = {}
    /\ probe = "none"
    /\ browser = "none"
    /\ context = "none"
    /\ page = "none"
    /\ query = NoQuery
    /\ api_user = JNull
    /\ ret = NoRet
    /\ outcome = "running"
    /\ log = <<>>
    /\ diag_ok = TRUE

\* The environment of a run: ACCOUNTS / ACCOUNTS_996 and the hash file.
MainInit ==
    /\ signin_idle
    /\ LibIdle
    /\ entry \in Entries
    /\ loaded \in {"none", "list"}
    /\ accounts \in IF loaded = "none" THEN {<<>>}
                    ELSE IF entry = "main" THEN AccountLists ELSE TokenLists
    /\ stored_hash \in StoredHashes
    /\ last_hash = NoHash
    /\ m_pc = "start"
    /\ idx = 1
    /\ started = <<>>
    /\ finished = <<>>
    /\ received = <<>>
    /\ processed = <<>>
    /\ success_count = 0
    /\ total_count = 0
    /\ need_notify = FALSE
    /\ notes = <<>>
    /\ current_balances = NoBalances
    /\ pushed = 0
    /\ main_ret = "none"
    /\ exit_code = "none"

\* accounts = load_accounts(); if not accounts: return 1.  Then the stored
\* hash is read and the counters are set.
M_Load ==
    /\ m_pc = "start"
    /\ IF loaded = "none" \/ accounts = <<>>
       THEN /\ main_ret' = "1"
            /\ m_pc' = "returned"
            /\ UNCHANGED <<last_hash, total_count>>
       ELSE /\ main_ret' = main_ret
            /\ m_pc' = "loop"
            /\ last_hash' = stored_hash
            /\ total_count' = IF entry = "main996" THEN Len(accounts) ELSE 0
    /\ UNCHANGED <<signin_vars, lib_vars, entry, loaded, accounts, stored_hash, idx, started,
                   finished, received, processed, success_count, need_notify, notes,
                   current_balances, pushed, exit_code>>

\* run_main: asyncio.run(main()) gave back main's return value, which is not
\* looked at; the script ends and the interpreter exits with status 0.
M_Returned ==
    /\ m_pc = "returned"
    /\ exit_code' = "0"
    /\ m_pc' = "exited"
    /\ UNCHANGED <<signin_vars, lib_vars, entry, loaded, accounts, stored_hash, last_hash, idx,
                   started, finished, received, processed, success_count, total_count,
                   need_notify, notes, current_balances, pushed, main_ret>>

NextIndexBreak(i) == Len(accounts) + 1

\* `continue` (main.py 218) and the end of the except clause (280-283,
\* checkin_996 171-173): the loop goes on with the next account.
NextIndexAfterFailure(i) == i + 1

AfterBeginNoAwait == "loop"

\* `results = await checkin.execute()`: main is suspended until the check-in
\* has returned or raised.
AfterBegin == "execute"

\* The head of the loop body for account idx: the provider lookup of main.py
\* and the call of the check-in.
M_Begin ==
    /\ m_pc = "loop" /\ idx <= Len(accounts)
    /\ processed' = Append(processed, idx)
    /\ IF entry = "main" /\ ~accounts[idx].known
       THEN /\ need_notify' = TRUE
            /\ notes' = Append(notes, "no_provider")
            /\ idx' = NextIndexAfterFailure(idx)
            /\ UNCHANGED <<m_pc, started>>
       ELSE /\ started' = Append(started, idx)
            /\ m_pc' = AfterBegin
            /\ UNCHANGED <<need_notify, notes, idx>>
    /\ UNCHANGED <<signin_vars, lib_vars, entry, loaded, accounts, stored_hash, last_hash,
                   finished, received, success_count, total_count, current_balances,
                   pushed, main_ret, exit_code>>

RecordsBalancesAlways(t) == TRUE

\* `if account_success:` (main.py 257): the balances of the account are kept.
RecordsBalances(t) == t.succ > 0

NeedsNotifyAllFailedOnly(t, results) == t.succ = 0 /\ results # <<>>

\* main.py 260-268: every method failed, or some failed and some succeeded.
NeedsNotify(t, results) ==
    \/ t.succ = 0 /\ results # <<>>
    \/ t.failed > 0 /\ t.succ > 0

\* src/main.py: the check-in of account idx returned its results or raised;
\* the rest of the loop body.
M_Finish ==
    /\ m_pc = "execute" /\ entry = "main"
    /\ finished' = Append(finished, idx)
    /\ m_pc' = "loop"
    /\ \/ \* checkin.execute() raised
          /\ received' = Append(received, [raised |-> TRUE, results |-> <<>>])
          /\ need_notify' = TRUE
          /\ notes' = Append(notes, "exception")
          /\ idx' = NextIndexAfterFailure(idx)
          /\ UNCHANGED <<success_count, total_count, current_balances>>
       \/ \E results \in ResultLists :
            LET t == Tally(results) IN
            /\ received' = Append(received, [raised |-> FALSE, results |-> results])
            /\ total_count' = total_count + Len(results)
            /\ success_count' = success_count + t.succ
            /\ IF t.raised
               THEN /\ need_notify' = TRUE
                    /\ notes' = Append(notes, "exception")
                    /\ idx' = NextIndexAfterFailure(idx)
                    /\ UNCHANGED current_balances
               ELSE /\ current_balances' =
                          IF RecordsBalances(t)
                          THEN Put(current_balances, idx, t.quotas)
                          ELSE current_balances
                    /\ need_notify' = (need_notify \/ NeedsNotify(t, results))
                    /\ notes' = Append(notes, "summary")
                    /\ idx' = idx + 1
    /\ UNCHANGED <<signin_vars, lib_vars, entry, loaded, accounts, stored_hash, last_hash,
                   started, processed, pushed, main_ret, exit_code>>

\* src/checkin_996/main.py: checkin.execute(token) returned (success,
\* user_info) or raised; the rest of the loop body.
M_Finish996 ==
    /\ m_pc = "execute" /\ entry = "main996"
    /\ finished' = Append(finished, idx)
    /\ m_pc' = "loop"
    /\ \E r \in {"raise", "ok1", "ok2", "ok_none", "failed", "failed_none"} :
         /\ received' = Append(received,
                               IF r = "raise" THEN [raised |-> TRUE, results |-> <<>>]
                               ELSE [raised |-> FALSE, results |-> <<r>>])
         /\ CASE r = "raise" ->
                /\ notes' = Append(notes, "exception")
                /\ idx' = NextIndexAfterFailure(idx)
                /\ UNCHANGED <<success_count, current_balances>>
           [] r \in {"ok1", "ok2"} ->
                /\ success_count' = success_count + 1
                /\ current_balances' = Put(current_balances, idx, <<QuotaOf(r)>>)
                /\ notes' = Append(notes, "summary")
                /\ idx' = idx + 1
           [] r = "ok_none" ->
                \* user_info is None: user_info.get raises after the count
                /\ success_count' = success_count + 1
                /\ current_balances' = Put(current_balances, idx, <<>>)
                /\ notes' = Append(notes, "exception")
                /\ idx' = NextIndexAfterFailure(idx)
           [] OTHER ->
                /\ notes' = Append(notes, "failed")
                /\ idx' = idx + 1
                /\ UNCHANGED <<success_count, current_balances>>
    /\ UNCHANGED <<signin_vars, lib_vars, entry, loaded, accounts, stored_hash, last_hash,
                   started, processed, total_count, need_notify, pushed,
                   main_ret, exit_code>>

BalanceChangedNotFirstRun(h, last) == HashTruthy(h) /\ HashTruthy(last) /\ h # last

\* main.py 288-298: there is a current hash, and the stored one is missing
\* (first run) or different.
BalanceChanged(h, last) == HashTruthy(h) /\ h # last

\* After the loop: the hash of this run is compared with the stored one;
\* main.py saves it here, checkin_996 after the notification.
M_Hash ==
    /\ m_pc = "loop" /\ idx > Len(accounts)
    /\ m_pc' = "notify"
    /\ IF entry = "main"
       THEN LET h == BalanceHash(current_balances) IN
            /\ need_notify' = (need_notify \/ BalanceChanged(h, last_hash))
            /\ stored_hash' = IF HashTruthy(h) THEN h ELSE stored_hash
       ELSE LET h == CheckinHash(current_balances) IN
            /\ need_notify' = (~HashTruthy(last_hash) \/ h # last_hash)
            /\ stored_hash' = stored_hash
    /\ UNCHANGED <<signin_vars, lib_vars, entry, loaded, accounts, last_hash, idx, started,
                   finished, received, processed, success_count, total_count, notes,
                   current_balances, pushed, main_ret, exit_code>>

\* `if need_notify and notification_content:` notify.push_message(...); an
\* exception of it leaves main and run_main exits with status 1.
M_Notify ==
    /\ m_pc = "notify"
    /\ IF need_notify /\ notes # <<>>
       THEN /\ pushed' = pushed + 1
            /\ \E ok \in BOOLEAN :
                 IF ok THEN m_pc' = "exit" /\ exit_code' = exit_code
                 ELSE m_pc' = "exited" /\ exit_code' = "1"
       ELSE /\ pushed' = pushed
            /\ m_pc' = "exit"
            /\ exit_code' = exit_code
    /\ UNCHANGED <<signin_vars, lib_vars, entry, loaded, accounts, stored_hash, last_hash, idx,
                   started, finished, received, processed, success_count, total_count,
                   need_notify, notes, current_balances, main_ret>>

\* sys.exit(0 if success_count > 0 else 1)
ExitStatus(n) == IF n > 0 THEN "0" ELSE "1"

\* checkin_996 saves its hash; then sys.exit(...).
M_Exit ==
    /\ m_pc = "exit"
    /\ stored_hash' =
          IF entry = "main996" /\ HashTruthy(CheckinHash(current_balances))
          THEN CheckinHash(current_balances) ELSE stored_hash
    /\ exit_code' = ExitStatus(success_count)
    /\ m_pc' = "exited"
    /\ UNCHANGED <<signin_vars, lib_vars, entry, loaded, accounts, last_hash, idx, started,
                   finished, received, processed, success_count, total_count, need_notify,
                   notes, current_balances, pushed, main_ret>>

MainNext ==
    \/ M_Load \/ M_Returned
    \/ M_Begin \/ M_Finish \/ M_Finish996
    \/ M_Hash \/ M_Notify \/ M_Exit

MainSpec == MainInit /\ [][MainNext]_vars

-----------------------------------------------------------------------------
(* Properties of the loop over the accounts *)

\* The loop is behind and main did not return early.
LoopDone == m_pc \in {"notify", "exit", "exited"} /\ main_ret = "none"

\* C24: the accounts are processed strictly one after the other: a check-in
\* is called only when every check-in called before has returned or raised,
\* so at most one is in progress, and the check-ins are called in list order.
C24_OneCheckInAtATime ==
    /\ Len(started) - Len(finished) \in {0, 1}
    /\ (m_pc = "execute") <=> (Len(started) = Len(finished) + 1)
    /\ finished = SubSeq(started, 1, Len(finished))
    /\ \A k \in 1..(Len(started) - 1) : started[k] < started[k + 1]

\* C24 witness: the second account's check-in is in progress after the first
\* one is over.
C24_Witness ==
    /\ m_pc = "execute" /\ idx = 2
    /\ started = <<1, 2>> /\ finished = <<1>>

\* C25: the process exits with status 0 when at least one check-in succeeded
\* and with status 1 in every other case: all failed, or the account
\* configuration could not be loaded or is empty.
C25_ExitCode ==
    m_pc = "exited" => exit_code = (IF success_count > 0 THEN "0" ELSE "1")

\* C30: a failure while one account is processed (its check-in raises, its
\* provider has no configuration) does not stop the loop: the loop bodies run
\* in list order, each account once, and when the loop is over every account
\* of the list has been processed.
C30_LoopSurvivesFailures ==
    /\ processed = [k \in 1..Len(processed) |-> k]
    /\ Len(processed) = IF m_pc = "execute" THEN idx ELSE idx - 1
    /\ LoopDone => Len(processed) = Len(accounts)

\* C30 witness: the first account failed (exception or missing provider) and
\* the second one was processed to its summary.
C30_Witness ==
    /\ LoopDone /\ Len(accounts) = 2
    /\ notes[1] \in {"exception", "no_provider"}
    /\ processed = <<1, 2>>
    /\ notes[2] = "summary"

\* ---------------------------------------------------------------------
\* Notification, change detection and counters of src/main.py (MainSpec)
\* ---------------------------------------------------------------------

MethodFailed(r) == r \in {"unconfirmed", "failed", "failed_none"}
MethodSucceeded(r) == r \in {"ok1", "ok2"}

\* Account number k of those finished so far had a failed method.
HadFailedMethod(k) ==
    /\ ~received[k].raised
    /\ \E j \in DOMAIN received[k].results : MethodFailed(received[k].results[j])

\* The processing of finished account k raised: in execute(), or in the loop
\* over its results.
HadException(k) ==
    \/ received[k].raised
    \/ \E j \in DOMAIN received[k].results : received[k].results[j] = "broken"

HadSuccess(k) ==
    /\ ~received[k].raised
    /\ \E j \in DOMAIN received[k].results : MethodSucceeded(received[k].results[j])

AnyFailedMethod == \E k \in DOMAIN received : HadFailedMethod(k)
AnyException == \E k \in DOMAIN received : HadException(k)
AnyMissingProvider == \E k \in DOMAIN processed : ~accounts[processed[k]].known
AnySuccess == \E k \in DOMAIN received : HadSuccess(k)

\* main is past the notification step of a run that had accounts.
AfterNotify == m_pc \in {"exit", "exited"} /\ main_ret = "none"

\* C31: in src/main.py, once an account had a failed authentication method,
\* raised, or named a provider without configuration, the run is bound to
\* notify whatever the balance hash is: the notification is pushed exactly
\* once by the end of the run, and never more than once.
C31_FailureAlwaysNotifies ==
    entry = "main" =>
        /\ pushed <= 1
        /\ (AnyFailedMethod \/ AnyException \/ AnyMissingProvider) =>
              /\ need_notify /\ notes # <<>>
              /\ AfterNotify => pushed = 1

\* A run with a failed method and an unchanged balance hash has notified.
C31_Witness ==
    /\ entry = "main" /\ AfterNotify
    /\ AnyFailedMethod /\ ~AnyException /\ ~AnyMissingProvider
    /\ HashTruthy(last_hash) /\ BalanceHash(current_balances) = last_hash
    /\ pushed = 1

\* C32 as stated: no failed method and an unchanged hash mean no
\* notification; a success with a missing or different stored hash means one.
C32_SkippedIffNoFailedMethodNoChange ==
    (entry = "main" /\ AfterNotify) =>
        /\ (~AnyFailedMethod /\ BalanceHash(current_balances) = last_hash) =>
              pushed = 0
        /\ (AnySuccess /\ BalanceHash(current_balances) # last_hash) =>
              pushed = 1

\* C32: the notification of src/main.py is skipped when no method failed, no
\* account raised or lacked a provider configuration, and the balance hash
\* equals the stored one; it is sent when an account succeeded and the stored
\* hash is missing or differs from the current one.
C32_SkippedIffAllGoodNoChange ==
    (entry = "main" /\ AfterNotify) =>
        /\ ( /\ ~AnyFailedMethod /\ ~AnyException /\ ~AnyMissingProvider
             /\ BalanceHash(current_balances) = last_hash ) =>
              pushed = 0
        /\ (AnySuccess /\ BalanceHash(current_balances) # last_hash) =>
              pushed = 1

\* A clean run with the stored hash: nothing was pushed.
C32_Witness ==
    /\ entry = "main" /\ AfterNotify
    /\ AnySuccess /\ ~AnyFailedMethod /\ ~AnyException /\ ~AnyMissingProvider
    /\ HashTruthy(last_hash) /\ BalanceHash(current_balances) = last_hash
    /\ pushed = 0

\* A first run with a success: the notification was pushed.
C32_WitnessFirstRun ==
    /\ entry = "main" /\ AfterNotify
    /\ AnySuccess /\ ~AnyFailedMethod /\ ~AnyException /\ ~AnyMissingProvider
    /\ last_hash = NoHash
    /\ pushed = 1

\* C33: a step that changes the stored hash belongs to a run in which an
\* account succeeded and something was collected; a run without any success
\* leaves the stored hash as it found it.
C33_HashOverwrittenOnlyOnSuccess ==
    [][stored_hash' # stored_hash =>
          success_count > 0 /\ DOMAIN current_balances # {}]_vars

\* Both entry points have overwritten a stored hash after a success, and a
\* run without success has ended with the stored hash it loaded.
C33_Witness ==
    /\ m_pc = "exited" /\ main_ret = "none"
    /\ HashTruthy(last_hash) /\ stored_hash # last_hash /\ success_count > 0

C33_WitnessNoSuccess ==
    /\ m_pc = "exited" /\ main_ret = "none"
    /\ HashTruthy(last_hash) /\ stored_hash = last_hash /\ success_count = 0
    /\ received # <<>>

RECURSIVE ResultsReceived(_)
ResultsReceived(rcv) ==
    IF rcv = <<>> THEN 0
    ELSE Len(Head(rcv).results) + ResultsReceived(Tail(rcv))

\* C39: in src/main.py, after any prefix of the accounts, success_count is
\* between 0 and total_count, total_count is the number of method results
\* received so far, and current_balances has an entry only for a finished
\* account one of whose methods succeeded.
C39_CountersConsistent ==
    entry = "main" =>
        /\ 0 <= success_count /\ success_count <= total_count
        /\ total_count = ResultsReceived(received)
        /\ \A a \in DOMAIN current_balances :
              \E k \in DOMAIN finished : finished[k] = a /\ HadSuccess(k)

\* Two accounts are done, one with a failure only and one with a success.
C39_Witness ==
    /\ entry = "main" /\ m_pc = "loop" /\ Len(finished) = 2
    /\ success_count = 1 /\ total_count = 3
    /\ DOMAIN current_balances = {2}

\* ---------------------------------------------------------------------
\* src/utils/config.py: ProviderConfig and AppConfig.load_from_env
\* (ConfigSpec)
\* ---------------------------------------------------------------------

MaxProviders == 2

\* Python's None and the function object aiai_li_sign_in_url, as values a
\* path field can hold next to strings.
PyNone == "<None>"
SignInFunction == "<function aiai_li_sign_in_url>"

\* dict.get(key, default)
Get(d, key, default) == IF key \in DOMAIN d THEN d[key] ELSE default

\* The values a provider can be given in PROVIDERS for the keys from_dict
\* reads here; null is JSON's null.
ProviderKeys == {"origin", "sign_in_path", "github_auth_path", "linuxdo_auth_path"}
ValuesFor(key) ==
    CASE key = "origin" -> {"https://custom.example"}
      [] key = "sign_in_path" -> {PyNone, "", "/api/checkin"}
      [] key = "github_auth_path" -> {"/oauth/gh"}
      [] key = "linuxdo_auth_path" -> {"/oauth/ld"}
ProviderDicts ==
    UNION {{d \in [D -> UNION {ValuesFor(k) : k \in ProviderKeys}] :
               \A k \in D : d[k] \in ValuesFor(k)} : D \in SUBSET ProviderKeys}

\* A value of the PROVIDERS object: a JSON object, or anything else (a list).
ProviderDatas ==
    {[dict |-> TRUE, d |-> d] : d \in ProviderDicts} \cup {[dict |-> FALSE, d |-> <<>>]}

ProviderNames == {"anyrouter", "agentrouter", "custom"}
RECURSIVE ItemLists(_)
ItemLists(n) ==
    IF n = 0 THEN {<<>>}
    ELSE LET shorter == ItemLists(n - 1) IN
         shorter \cup
         {Append(l, [name |-> nm, data |-> pd]) :
             l \in {x \in shorter : Len(x) = n - 1},
             nm \in ProviderNames, pd \in ProviderDatas}
DistinctNames(l) == \A a, b \in DOMAIN l : l[a].name = l[b].name => a = b

\* PROVIDERS: unset, the empty string, text that is not JSON, a JSON value
\* that is not an object, or an object (its items in document order).
ProvidersEnvs ==
    {[kind |-> k, items |-> <<>>] : k \in {"unset", "empty", "invalid", "array"}}
    \cup {[kind |-> "object", items |-> l] :
             l \in {x \in ItemLists(MaxProviders) : DistinctNames(x)}}

\* ProviderConfig(...), with the fields the URL methods below read.
ProviderConfig(name, origin, sign_in_path, github_auth_path, linuxdo_auth_path) ==
    [name |-> name, origin |-> origin, sign_in_path |-> sign_in_path,
     github_auth_path |-> github_auth_path, linuxdo_auth_path |-> linuxdo_auth_path]

\* data["origin"] raises KeyError, and indexing a non-dict TypeError.
FromDictRaises(pd) == ~pd.dict \/ "origin" \notin DOMAIN pd.d

\* ProviderConfig.from_dict(name, data)
from_dict(name, data) ==
    ProviderConfig(name,
                   data["origin"],
                   Get(data, "sign_in_path", "/api/user/sign_in"),
                   Get(data, "github_auth_path", "/api/oauth/github"),
                   Get(data, "github_auth_path", "/api/oauth/linuxdo"))

\* The providers dict literal of load_from_env.
BuiltinProviders ==
    [n \in {"anyrouter", "agentrouter", "wong", "aiai.li"} |->
        CASE n = "anyrouter" ->
               ProviderConfig(n, "https://anyrouter.top", "/api/user/sign_in",
                              "/api/oauth/github", "/api/oauth/linuxdo")
          [] n = "agentrouter" ->
               ProviderConfig(n, "https://agentrouter.org", PyNone,
                              "/api/oauth/github", "/api/oauth/linuxdo")
          [] n = "wong" ->
               ProviderConfig(n, "https://wzw.de5.net", "/api/user/checkin",
                              PyNone, "/api/oauth/linuxdo")
          [] n = "aiai.li" ->
               ProviderConfig(n, "https://aiai.li", SignInFunction,
                              PyNone, "/api/oauth/linuxdo")]

UserIds == {"1", "7"}

\* utils.signature.aiai_li_sign_in_url(origin, user_id): always a string; the
\* timestamp and the signature are abstracted to the user id they depend on.
aiai_li_sign_in_url(origin, user_id) ==
    origin \o "/api/user/checkin?signature=" \o user_id

\* ProviderConfig.needs_manual_check_in
needs_manual_check_in(p) == p.sign_in_path # PyNone

\* ProviderConfig.get_sign_in_url
get_sign_in_url(p, user_id) ==
    IF p.sign_in_path = PyNone \/ p.sign_in_path = ""
    THEN PyNone
    ELSE IF p.sign_in_path = SignInFunction
    THEN aiai_li_sign_in_url(p.origin, user_id)
    ELSE p.origin \o p.sign_in_path

\* ProviderConfig.get_linuxdo_auth_url
get_linuxdo_auth_url(p) == p.origin \o p.linuxdo_auth_path

ConfigInit ==
    /\ signin_idle
    /\ CallerIdle
    /\ AccountsIdle
    /\ TokenIdle
    /\ providers_env \in ProvidersEnvs
    /\ providers = <<>>
    /\ c_pc = "start"
    /\ c_i = 0

\* providers = {...}: the built-in providers.
L_Builtins ==
    /\ c_pc = "start"
    /\ providers' = BuiltinProviders
    /\ c_pc' = "getenv"
    /\ UNCHANGED <<signin_vars, caller, accounts_vars, token_vars, providers_env, c_i>>

\* os.getenv, json.loads and the isinstance test: only an object reaches
\* the loop; every other value returns the dict as it is.
L_Parse ==
    /\ c_pc = "getenv"
    /\ IF providers_env.kind = "object"
       THEN c_pc' = "loop" /\ c_i' = 1
       ELSE c_pc' = "done" /\ c_i' = c_i
    /\ UNCHANGED <<signin_vars, caller, accounts_vars, token_vars, providers_env, providers>>

SkippedProviderDropped(ps, name) == [n \in DOMAIN ps \ {name} |-> ps[n]]

\* except Exception ... continue: the dict is as it was.
SkippedProvider(ps, name) == ps

\* One round of `for name, provider_data in providers_data.items()`.
L_Item ==
    /\ c_pc = "loop" /\ c_i <= Len(providers_env.items)
    /\ LET it == providers_env.items[c_i] IN
       providers' =
          IF FromDictRaises(it.data)
          THEN SkippedProvider(providers, it.name)
          ELSE Put(providers, it.name, from_dict(it.name, it.data.d))
    /\ c_i' = c_i + 1
    /\ UNCHANGED <<signin_vars, caller, accounts_vars, token_vars, providers_env, c_pc>>

\* return cls(providers=providers)
L_Return ==
    /\ c_pc = "loop" /\ c_i > Len(providers_env.items)
    /\ c_pc' = "done"
    /\ UNCHANGED <<signin_vars, caller, accounts_vars, token_vars, providers_env, providers, c_i>>

ConfigNext == L_Builtins \/ L_Parse \/ L_Item \/ L_Return

ConfigSpec == ConfigInit /\ [][ConfigNext]_vars

\* ---------------------------------------------------------------------
\* src/main.py: load_accounts (AccountsSpec)
\* ---------------------------------------------------------------------

MaxEntries == 2

\* A key that the dict does not have.
Absent == "<absent>"

\* The value under "linux.do" or "github": missing, not a dict, or a dict
\* with or without username and password.
AuthBlocks ==
    {[kind |-> "absent", username |-> Absent, password |-> Absent],
     [kind |-> "nondict", username |-> Absent, password |-> Absent],
     [kind |-> "dict", username |-> "u", password |-> Absent],
     [kind |-> "dict", username |-> "", password |-> "p"],
     [kind |-> "dict", username |-> "u", password |-> ""],
     [kind |-> "dict", username |-> "u", password |-> "p"]}

\* An element of the ACCOUNTS list: not a dict, or a dict with any of the
\* keys load_accounts looks at.
AccountEntries ==
    [dict : {TRUE}, cookies : {Absent, "", "c=1"}, api_user : {Absent, "", "7"},
     name : {Absent, "", "n"}, linux_do : AuthBlocks, github : AuthBlocks]
    \cup {[dict |-> FALSE, cookies |-> Absent, api_user |-> Absent, name |-> Absent,
           linux_do |-> CHOOSE b \in AuthBlocks : b.kind = "absent",
           github |-> CHOOSE b \in AuthBlocks : b.kind = "absent"]}

\* `not x` for a value of a dict, and `not d.get(key)`.
Falsy(v) == v = Absent \/ v = ""

BlockRejectedKeysOnly(b) ==
    b.kind = "nondict" \/ b.username = Absent \/ b.password = Absent

\* The three checks of a linux.do / github block (main.py 64-78, 81-95).
BlockRejected(b) ==
    \/ b.kind = "nondict"
    \/ b.username = Absent \/ b.password = Absent
    \/ b.username = "" \/ b.password = ""

\* The checks of one round of the loop, in the order of the code: TRUE when
\* one of them returns None.
EntryRejected(e) ==
    \/ ~e.dict
    \/ LET has_linux_do == e.linux_do.kind # "absent"
           has_github == e.github.kind # "absent"
           has_cookies == e.cookies # Absent
       IN  \/ ~has_linux_do /\ ~has_github /\ ~has_cookies
           \/ has_cookies /\ (Falsy(e.cookies) \/ Falsy(e.api_user))
           \/ has_linux_do /\ BlockRejected(e.linux_do)
           \/ has_github /\ BlockRejected(e.github)
           \/ has_cookies /\ (e.cookies = "" \/ e.api_user = Absent \/ e.api_user = "")
           \/ e.name # Absent /\ e.name = ""

\* AccountConfig.from_dict(data, index) of utils/config.py.
AccountConfig_from_dict(data, index) ==
    LET name == IF data.name = Absent THEN "Account " \o ToString(index + 1)
                ELSE data.name
    IN  [provider |-> "anyrouter",
         name |-> IF name # "" THEN name ELSE PyNone,
         cookies |-> IF data.cookies = Absent THEN "" ELSE data.cookies,
         api_user |-> IF data.api_user = Absent THEN "" ELSE data.api_user,
         linux_do |-> data.linux_do,
         github |-> data.github]

AccountsInit ==
    /\ signin_idle
    /\ CallerIdle
    /\ ConfigIdle
    /\ TokenIdle
    /\ a_pc = "start"
    /\ a_kind \in {"unset", "empty", "invalid", "object", "list"}
    /\ a_entries = <<>>
    /\ a_accounts = <<>>
    /\ a_ret = "running"

\* os.getenv, json.loads and the isinstance test: only a list reaches the
\* loop; an unset or empty variable, text that is not JSON and any other JSON
\* value return None.
A_Load ==
    /\ a_pc = "start"
    /\ IF a_kind = "list"
       THEN a_pc' = "loop" /\ a_ret' = a_ret
       ELSE a_pc' = "done" /\ a_ret' = "None"
    /\ UNCHANGED <<signin_vars, caller, config_vars, token_vars, a_kind, a_entries,
                   a_accounts>>

\* One round of `for i, account in enumerate(accounts_data)`: the next entry
\* of the list is read and checked.
A_Entry ==
    /\ a_pc = "loop" /\ Len(a_entries) < MaxEntries
    /\ \E e \in AccountEntries :
         /\ a_entries' = Append(a_entries, e)
         /\ IF EntryRejected(e)
            THEN /\ a_pc' = "done"
                 /\ a_ret' = "None"
                 /\ a_accounts' = a_accounts
            ELSE /\ a_accounts' = Append(a_accounts,
                                        AccountConfig_from_dict(e, Len(a_entries)))
                 /\ UNCHANGED <<a_pc, a_ret>>
    /\ UNCHANGED <<signin_vars, caller, config_vars, token_vars, a_kind>>

\* The list has no further entry: return accounts.
A_Return ==
    /\ a_pc = "loop"
    /\ a_pc' = "done"
    /\ a_ret' = "list"
    /\ UNCHANGED <<signin_vars, caller, config_vars, token_vars, a_kind, a_entries,
                   a_accounts>>

AccountsNext == A_Load \/ A_Entry \/ A_Return

AccountsSpec == AccountsInit /\ [][AccountsNext]_vars

\* ---------------------------------------------------------------------
\* src/checkin_996/checkin.py: CheckIn.check_in_with_token (TokenSpec)
\* ---------------------------------------------------------------------

\* What response.json() finds: text that is not JSON, null, a JSON value
\* that is not an object (a list), or an object with these keys. `message`
\* is absent, says that the check-in was already made today, or says
\* something else; `data` is absent, an object or null.
Bodies ==
    [json : {"nonjson", "null", "list"}, success : {FALSE}, code : {"absent"},
     message : {"absent"}, data : {"absent"}]
    \cup [json : {"dict"}, success : BOOLEAN, code : {"absent", "0", "1"},
          message : {"absent", "already", "other"}, data : {"absent", "dict", "null"}]

\* The outcome of a request: a response, or an exception of the transport
\* (status -1).
RequestRaised == [status |-> -1, body |-> NoResponse.body]
Responses == [status : {200, 400, 500}, body : Bodies] \cup {RequestRaised}

\* _check_and_handle_response followed by `json_data.get(...)`: a JSON value
\* that is not a dict has no .get, which raises AttributeError.
GetRaises(r) == r.body.json = "list"

\* execute_check_in returns True.
Accepted(r) ==
    /\ r.status \in {200, 400}
    /\ r.body.json = "dict"
    /\ r.body.success \/ r.body.code = "0" \/ r.body.message = "already"

\* An exception leaves execute_check_in: client.post raised, or the body of
\* a 200/400 answer is JSON without .get.
CheckInRaises(r) == r = RequestRaised \/ (r.status \in {200, 400} /\ GetRaises(r))

\* get_checkin_info: "None", or the data it returns ("empty" is the {} of a
\* missing `data`). Every exception inside it gives None.
get_checkin_info(r) ==
    IF r # RequestRaised /\ r.status = 200 /\ r.body.json = "dict" /\ r.body.success
    THEN CASE r.body.data = "absent" -> "empty"
           [] r.body.data = "dict" -> "data"
           [] OTHER -> "None"
    ELSE "None"

Return(success, value) == [kind |-> "return", success |-> success, value |-> value]

TokenInit ==
    /\ signin_idle
    /\ CallerIdle
    /\ ConfigIdle
    /\ AccountsIdle
    /\ t_pc = "start"
    /\ t_post = NoResponse
    /\ t_info = NoResponse
    /\ t_calls = <<>>
    /\ t_success = FALSE
    /\ t_ret = [kind |-> "running", success |-> FALSE, value |-> "none"]

\* client = httpx.Client(http2=False, timeout=30.0, proxy=...), before the
\* try statement: with a proxy URL of a scheme httpx does not support the
\* constructor raises, and the exception leaves check_in_with_token.
T_Client ==
    /\ t_pc = "start"
    /\ \/ /\ t_calls' = Append(t_calls, "Client")
          /\ t_pc' = "post"
          /\ t_ret' = t_ret
       \/ /\ t_calls' = Append(t_calls, "Client_raised")
          /\ t_pc' = "done"
          /\ t_ret' = [kind |-> "raise", success |-> FALSE, value |-> "none"]
    /\ UNCHANGED <<signin_vars, caller, config_vars, accounts_vars, t_post, t_info,
                   t_success>>

\* success = self.execute_check_in(...) and the branch on it.
T_CheckIn ==
    /\ t_pc = "post"
    /\ \E r \in Responses :
         /\ t_post' = r
         /\ t_calls' = Append(t_calls, "post")
         /\ IF CheckInRaises(r)
            THEN /\ t_ret' = Return(FALSE, "error: process")
                 /\ t_pc' = "finally"
                 /\ t_success' = t_success
            ELSE IF Accepted(r)
            THEN /\ t_success' = TRUE
                 /\ t_pc' = "info"
                 /\ t_ret' = t_ret
            ELSE /\ t_success' = FALSE
                 /\ t_ret' = Return(FALSE, "error: check-in failed")
                 /\ t_pc' = "finally"
    /\ UNCHANGED <<signin_vars, caller, config_vars, accounts_vars, t_info>>

\* user_info = self.get_checkin_info(...) and the two returns after it.
T_Info ==
    /\ t_pc = "info"
    /\ \E r \in Responses :
         /\ t_info' = r
         /\ t_calls' = Append(t_calls, "get")
         /\ t_ret' = IF get_checkin_info(r) = "None"
                     THEN Return(FALSE, "error: no user info")
                     ELSE Return(TRUE, get_checkin_info(r))
    /\ t_pc' = "finally"
    /\ UNCHANGED <<signin_vars, caller, config_vars, accounts_vars, t_post, t_success>>

\* finally: client.close()
T_Finally ==
    /\ t_pc = "finally"
    /\ t_calls' = Append(t_calls, "close")
    /\ t_pc' = "done"
    /\ UNCHANGED <<signin_vars, caller, config_vars, accounts_vars, t_post, t_info,
                   t_success, t_ret>>

TokenNext == T_Client \/ T_CheckIn \/ T_Info \/ T_Finally

TokenSpec == TokenInit /\ [][TokenNext]_vars

\* The items of PROVIDERS the loop has been through, and those of them that
\* from_dict accepted.
ItemsDone ==
    IF providers_env.kind = "object" /\ c_pc \in {"loop", "done"}
    THEN 1..(c_i - 1) ELSE {}
ItemsParsed == {k \in ItemsDone : ~FromDictRaises(providers_env.items[k].data)}
ItemsSkipped == ItemsDone \ ItemsParsed

\* C34: for every custom provider from_dict has built, linuxdo_auth_path is
\* the dict's own `linuxdo_auth_path` if given and "/api/oauth/linuxdo"
\* otherwise, and get_linuxdo_auth_url() is the origin followed by it.
C34_LinuxdoPathUnderOwnKey ==
    \A k \in ItemsParsed :
        LET it == providers_env.items[k]
            path == Get(it.data.d, "linuxdo_auth_path", "/api/oauth/linuxdo")
        IN  /\ providers[it.name].linuxdo_auth_path = path
            /\ get_linuxdo_auth_url(providers[it.name]) = it.data.d["origin"] \o path

\* C35: for every provider of the loaded configuration and every user id,
\* needs_manual_check_in() is true exactly when get_sign_in_url(user_id) is
\* not None.
C35_ManualCheckInIffSignInUrl ==
    \A n \in DOMAIN providers : \A u \in UserIds :
        needs_manual_check_in(providers[n]) <=> (get_sign_in_url(providers[n], u) # PyNone)

\* C36: load_from_env holds, after any number of items, exactly the built-in
\* providers and the custom providers that parsed, each custom one in place of
\* a built-in of its name; an item that failed to parse changes nothing, and
\* a PROVIDERS value that is not a JSON object leaves the built-in set.
C36_BuiltinsUnlessOverridden ==
    c_pc \in {"getenv", "loop", "done"} =>
        LET parsedNames == {providers_env.items[k].name : k \in ItemsParsed} IN
        /\ DOMAIN providers = DOMAIN BuiltinProviders \cup parsedNames
        /\ \A k \in ItemsParsed :
              providers[providers_env.items[k].name] =
                 from_dict(providers_env.items[k].name, providers_env.items[k].data.d)
        /\ \A n \in DOMAIN BuiltinProviders \ parsedNames :
              providers[n] = BuiltinProviders[n]
        /\ providers_env.kind # "object" => providers = BuiltinProviders

\* load_from_env has returned after an override of one built-in and a failed
\* item named like another built-in.
C36_Witness ==
    /\ c_pc = "done" /\ providers_env.kind = "object"
    /\ \E a \in ItemsParsed : providers_env.items[a].name = "anyrouter"
    /\ \E b \in ItemsSkipped : providers_env.items[b].name = "agentrouter"
    /\ providers["anyrouter"] # BuiltinProviders["anyrouter"]
    /\ providers["agentrouter"] = BuiltinProviders["agentrouter"]

\* An auth block that is not a dict or lacks a non-empty username and password.
BlockInvalid(b) ==
    b.kind = "nondict" \/ b.username \in {Absent, ""} \/ b.password \in {Absent, ""}

\* The entries C37 calls invalid.
EntryInvalid(e) ==
    \/ ~e.dict
    \/ e.linux_do.kind = "absent" /\ e.github.kind = "absent" /\ e.cookies = Absent
    \/ e.cookies # Absent /\ (e.cookies = "" \/ e.api_user \in {Absent, ""})
    \/ e.linux_do.kind # "absent" /\ BlockInvalid(e.linux_do)
    \/ e.github.kind # "absent" /\ BlockInvalid(e.github)
    \/ e.name = ""

\* C37: given a list, load_accounts returns None exactly when an entry is
\* invalid, and then at the first such entry; otherwise it returns one
\* AccountConfig per entry, in the order of the input.
C37_AllOrNothing ==
    a_kind = "list" =>
        /\ Len(a_accounts) <= Len(a_entries)
        /\ a_pc = "loop" =>
              \A k \in DOMAIN a_entries : ~EntryInvalid(a_entries[k])
        /\ a_pc = "done" =>
              /\ a_ret = "None" <=>
                    \E k \in DOMAIN a_entries : EntryInvalid(a_entries[k])
              /\ a_ret = "None" =>
                    \A k \in DOMAIN a_entries :
                        EntryInvalid(a_entries[k]) => k = Len(a_entries)
              /\ a_ret = "list" =>
                    /\ Len(a_accounts) = Len(a_entries)
                    /\ \A k \in DOMAIN a_entries :
                          a_accounts[k] = AccountConfig_from_dict(a_entries[k], k - 1)

\* Two valid entries gave two accounts in order, with the default name for
\* the second.
C37_Witness ==
    /\ a_pc = "done" /\ a_ret = "list" /\ Len(a_entries) = 2
    /\ a_entries[1] # a_entries[2]
    /\ a_accounts[1].name = "n" /\ a_accounts[2].name = "Account 2"

\* A valid entry followed by one with an empty password gave None.
C37_WitnessNone ==
    /\ a_pc = "done" /\ a_ret = "None" /\ Len(a_entries) = 2
    /\ a_entries[2].github.kind = "dict" /\ a_entries[2].github.password = ""

TokenCalled(c) == \E k \in DOMAIN t_calls : t_calls[k] = c
TokenDone == t_pc = "done"

\* The check-in request was accepted, in the words of C38.
CheckInAccepted ==
    /\ t_post.status \in {200, 400}
    /\ t_post.body.json = "dict"
    /\ t_post.body.success \/ t_post.body.code = "0" \/ t_post.body.message = "already"

\* The check-in-info request succeeded.
InfoSucceeded ==
    /\ t_info.status = 200 /\ t_info.body.json = "dict" /\ t_info.body.success

\* What C38 says of a call in which the client exists: success needs an
\* accepted check-in and a successful info request, the info request comes
\* only after an accepted check-in, an exception of a request gives
\* (False, {error}), and the client is closed by the end.
C38_OnceClientExists ==
    /\ (t_ret.kind = "return" /\ t_ret.success) =>
          CheckInAccepted /\ InfoSucceeded /\ t_ret.value \in {"data", "empty"}
    /\ (t_ret.kind = "return" /\ ~t_ret.success) =>
          t_ret.value \in {"error: process", "error: check-in failed",
                           "error: no user info"}
    /\ TokenCalled("get") => CheckInAccepted
    /\ (TokenCalled("post") /\ CheckInRaises(t_post) /\ t_pc # "post") =>
          t_ret = Return(FALSE, "error: process")
    /\ (TokenDone /\ TokenCalled("Client")) =>
          t_calls[Len(t_calls)] = "close"

\* C38: check_in_with_token never raises: it returns success only after an
\* accepted check-in request and a successful check-in-info request, makes
\* the info request only after an accepted check-in, answers any exception
\* with (False, {error}), and closes the HTTP client on every path.
C38_SuccessOnlyIfAcceptedNeverRaises ==
    /\ C38_OnceClientExists
    /\ t_ret.kind # "raise"
    /\ TokenDone => t_ret.kind = "return"

====
